---- MODULE Spec2Model ----
(***************************************************************************)
(* Model of the open_code_config generators: each generator script loads   *)
(* a TOML file, picks its section, resolves and merges template fragments, *)
(* strips leading frontmatter and writes a Markdown document.              *)
(*                                                                         *)
(* A text is a sequence of tokens.  The tokens "\n", " " and "\t" are the  *)
(* whitespace characters; every other token is a run of characters with no *)
(* newline and no leading or trailing whitespace (a word, a literal of the *)
(* code such as "# Additional Files", or a delimiter such as "---").       *)
(* A path is a sequence of path components relative to the project root.   *)
(***************************************************************************)
EXTENDS Integers, Sequences, FiniteSets, TLC

VARIABLES
    gen,        \* the generator class this process constructed
    cfgfile,    \* the config file on disk: MissingFile, InvalidToml or the parsed section
    fs,         \* the files below the project root: path -> text, or Missing
    dirs,       \* the directories created below the project root (output directories)
    runs,       \* how many times generate() was called
    result,     \* outcome of the last generate(): "none", "true", "false", "exit1"
    resolved,   \* what validate_and_read_template did in the last run, or NotCalled
    io,         \* file operations of the last run, in order
    starts,     \* fs as it was when each run started, one entry per run
    history,    \* content of the output file after each run
    content,    \* the text handed to _strip_frontmatter (to the writer, when it is run alone)
    stripped,   \* Frontmatter Stripper: what it returned, or NotRun
    formatted,  \* writer run alone: what _format_permissions returned, or NotRun
    procs,      \* concurrent runs: per process its generator, config file and progress
    driver      \* init.py: its position in the scripts, results and progress, or NoDriver

vars == <<gen, cfgfile, fs, dirs, runs, result, resolved, io, starts, history,
          content, stripped, formatted, procs, driver>>

genVars == <<gen, cfgfile, fs, dirs, runs, result, resolved, io, starts, history>>

\* ------------------------------------------------------------------ bounds

MaxLines == 4        \* lines of a text handed to the Frontmatter Stripper
MaxAdditional == 2   \* entries of additional_files
MaxRuns == 2         \* calls of generate() in one behaviour
MaxFlushed == 3      \* tokens that reach the output file before a write fails

\* ------------------------------------------------------------------ text

NL == "\n"
\* markers that are no text of any file (a text never holds these tokens)
Missing == <<"<missing>">>
NotRun == <<"<not run>">>

Min(S) == CHOOSE x \in S : \A y \in S : x <= y

\* str.strip() removes leading and trailing whitespace characters
IsSpace(t) == t \in {" ", "\t", NL}

RECURSIVE lstrip(_)
lstrip(s) == IF s # <<>> /\ IsSpace(Head(s)) THEN lstrip(Tail(s)) ELSE s

RECURSIVE rstrip(_)
rstrip(s) ==
    IF s # <<>> /\ IsSpace(s[Len(s)]) THEN rstrip(SubSeq(s, 1, Len(s) - 1)) ELSE s

strip(s) == rstrip(lstrip(s))

\* str.split('\n'): the lines of a text; the empty text has one empty line
RECURSIVE split(_)
split(s) ==
    IF \A i \in 1..Len(s) : s[i] # NL
    THEN <<s>>
    ELSE LET i == Min({j \in 1..Len(s) : s[j] = NL})
         IN  <<SubSeq(s, 1, i - 1)>> \o split(SubSeq(s, i + 1, Len(s)))

\* sep.join(parts)
RECURSIVE join(_, _)
join(sep, parts) ==
    IF parts = <<>> THEN <<>>
    ELSE IF Len(parts) = 1 THEN parts[1]
    ELSE parts[1] \o sep \o join(sep, Tail(parts))

\* ------------------------------------------------------------------ Frontmatter Stripper

\* the while loop of _strip_frontmatter: drop leading lines that strip to nothing
RECURSIVE skip_leading_empty(_)
skip_leading_empty(remaining_lines) ==
    IF remaining_lines # <<>> /\ strip(remaining_lines[1]) = <<>>
    THEN skip_leading_empty(Tail(remaining_lines))
    ELSE remaining_lines

\* mutant: the remaining lines are returned without skipping leading empty lines
strip_keep_blank(c) ==
    LET lines == split(c)
        closing == {i \in 2..Len(lines) : strip(lines[i]) = <<"---">>}
    IN  IF strip(lines[1]) = <<"---">> /\ closing # {}
        THEN join(<<NL>>, SubSeq(lines, Min(closing) + 1, Len(lines)))
        ELSE c

\* mutant: an unterminated frontmatter block swallows the whole text
strip_unterminated(c) ==
    LET lines == split(c)
        closing == {i \in 2..Len(lines) : strip(lines[i]) = <<"---">>}
    IN  IF strip(lines[1]) = <<"---">>
        THEN IF closing # {}
             THEN join(<<NL>>, skip_leading_empty(SubSeq(lines, Min(closing) + 1, Len(lines))))
             ELSE <<>>
        ELSE c

\* mutant: the text is returned as it came
strip_nothing(c) == c

\* mutant: the block ends at the last '---' line instead of the first
strip_through_last(c) ==
    LET lines == split(c)
        closing == {i \in 2..Len(lines) : strip(lines[i]) = <<"---">>}
        last == CHOOSE i \in closing : \A j \in closing : j <= i
    IN  IF strip(lines[1]) = <<"---">> /\ closing # {}
        THEN join(<<NL>>, skip_leading_empty(SubSeq(lines, last + 1, Len(lines))))
        ELSE c

_strip_frontmatter(c) ==
    LET lines == split(c)
        closing == {i \in 2..Len(lines) : strip(lines[i]) = <<"---">>}
    IN  IF strip(lines[1]) = <<"---">> /\ closing # {}
        THEN join(<<NL>>, skip_leading_empty(SubSeq(lines, Min(closing) + 1, Len(lines))))
        ELSE c

\* the lines the stripper is exercised on
StripLines == { <<"---">>, <<>>, <<" ">>, <<"a">>, <<"---", " ">>, <<"--">> }

RECURSIVE LineSeqs(_)
LineSeqs(n) ==
    IF n = 0 THEN { <<>> }
    ELSE LET shorter == LineSeqs(n - 1)
         IN  shorter \cup { <<l>> \o ls : l \in StripLines,
                                          ls \in { x \in shorter : Len(x) = n - 1 } }

StripInputs == { join(<<NL>>, ls) : ls \in LineSeqs(MaxLines) }

\* ------------------------------------------------------------------ config and files

\* dict.get(key, default)
Get(c, k, d) == IF k \in DOMAIN c THEN c[k] ELSE d

\* Path.name
Name(path) == path[Len(path)]

\* Path.exists() and f.read() below the project root
Exists(files, path) == path \in DOMAIN files /\ files[path] # Missing
Read(files, path) == IF path \in DOMAIN files THEN files[path] ELSE Missing

Op(kind, path) == [op |-> kind, path |-> path]

\* how a call ends: it returns a text, or it raises
Ok(body, main, ops) ==
    [status |-> "ok", exc |-> "", error |-> "", body |-> body, main |-> main, io |-> ops]
Raise(exc, msg, ops) ==
    [status |-> "raise", exc |-> exc, error |-> msg, body |-> <<>>, main |-> <<>>, io |-> ops]

\* mutant: a listed file that does not exist is passed over
RECURSIVE additional_files_skip_missing(_, _, _, _)
additional_files_skip_missing(files, additional_files, combined_content, ops) ==
    IF additional_files = <<>>
    THEN Ok(join(<<NL, NL>>, combined_content), <<>>, ops)
    ELSE LET additional_file_path == Head(additional_files)
             ops1 == Append(ops, Op("exists", additional_file_path))
         IN  IF ~Exists(files, additional_file_path)
             THEN additional_files_skip_missing(files, Tail(additional_files),
                                                combined_content, ops1)
             ELSE LET text == Read(files, additional_file_path)
                      fragment == <<"##", " ", Name(additional_file_path), NL, NL>> \o text
                  IN  additional_files_skip_missing(
                          files, Tail(additional_files),
                          IF strip(text) # <<>>
                          THEN Append(combined_content, fragment)
                          ELSE combined_content,
                          Append(ops1, Op("read", additional_file_path)))

\* the loop of _process_additional_files
RECURSIVE additional_files_loop(_, _, _, _)
additional_files_loop(files, additional_files, combined_content, ops) ==
    IF additional_files = <<>>
    THEN Ok(join(<<NL, NL>>, combined_content), <<>>, ops)
    ELSE LET additional_file_path == Head(additional_files)
             ops1 == Append(ops, Op("exists", additional_file_path))
         IN  IF ~Exists(files, additional_file_path)
             THEN Raise("FileNotFoundError", "Additional file not found", ops1)
             ELSE LET text == Read(files, additional_file_path)
                      fragment == <<"##", " ", Name(additional_file_path), NL, NL>> \o text
                  IN  additional_files_loop(
                          files, Tail(additional_files),
                          IF strip(text) # <<>>
                          THEN Append(combined_content, fragment)
                          ELSE combined_content,
                          Append(ops1, Op("read", additional_file_path)))

\* mutant: the listed files are walked last to first
process_additional_files_reversed(files, additional_files) ==
    IF additional_files = <<>>
    THEN Ok(<<>>, <<>>, <<>>)
    ELSE additional_files_loop(
             files,
             [i \in 1..Len(additional_files) |->
                  additional_files[Len(additional_files) + 1 - i]],
             <<>>, <<>>)

_process_additional_files(files, additional_files) ==
    IF additional_files = <<>>
    THEN Ok(<<>>, <<>>, <<>>)
    ELSE additional_files_loop(files, additional_files, <<>>, <<>>)

AdditionalFilesHeader == <<NL, NL, "# Additional Files", NL, NL>>

\* mutant: merge puts the additional content after the main content with no heading
apply_strategy_no_heading(files, main_template_content, ops, additional_files, additional_files_strategy) ==
    LET listed == _process_additional_files(files, additional_files)
        ops1 == ops \o listed.io
    IN  IF listed.status = "raise"
        THEN Raise(listed.exc, listed.error, ops1)
        ELSE IF additional_files_strategy = "replace" /\ additional_files # <<>>
        THEN Ok(listed.body, main_template_content, ops1)
        ELSE IF additional_files_strategy = "merge" /\ listed.body # <<>>
        THEN Ok(main_template_content \o <<NL, NL>> \o listed.body,
                main_template_content, ops1)
        ELSE Ok(main_template_content, main_template_content, ops1)

\* "Process additional files" and "Apply strategy", the tail of validate_and_read_template
apply_strategy(files, main_template_content, ops, additional_files, additional_files_strategy) ==
    LET additional == _process_additional_files(files, additional_files)
        ops1 == ops \o additional.io
    IN  IF additional.status = "raise"
        THEN Raise(additional.exc, additional.error, ops1)
        ELSE IF additional_files_strategy = "replace" /\ additional_files # <<>>
        THEN Ok(additional.body, main_template_content, ops1)
        ELSE IF additional_files_strategy = "merge"
        THEN IF additional.body # <<>>
             THEN Ok(main_template_content \o AdditionalFilesHeader \o additional.body,
                     main_template_content, ops1)
             ELSE Ok(main_template_content, main_template_content, ops1)
        ELSE Ok(main_template_content, main_template_content, ops1)

\* exists(), stat().st_size == 0, read(): a template that must exist and hold something
checked_template(files, path, missing_msg, empty_msg) ==
    IF ~Exists(files, path)
    THEN Raise("FileNotFoundError", missing_msg, <<Op("exists", path)>>)
    ELSE IF Read(files, path) = <<>>
    THEN Raise("ValueError", empty_msg, <<Op("exists", path), Op("stat", path)>>)
    ELSE Ok(Read(files, path), Read(files, path),
            <<Op("exists", path), Op("stat", path), Op("read", path)>>)

\* mutant: the custom template file is read without looking at its size
custom_template_unchecked(files, template_file) ==
    IF template_file = <<>>
    THEN Raise("ValueError", "Custom template specified but template_file is empty", <<>>)
    ELSE IF ~Exists(files, template_file)
    THEN Raise("FileNotFoundError", "Custom template file not found",
               <<Op("exists", template_file)>>)
    ELSE Ok(Read(files, template_file), Read(files, template_file),
            <<Op("exists", template_file), Op("read", template_file)>>)

\* the branch template == 'custom'
custom_template(files, template_file) ==
    IF template_file = <<>>
    THEN Raise("ValueError", "Custom template specified but template_file is empty", <<>>)
    ELSE checked_template(files, template_file,
                          "Custom template file not found", "Custom template file is empty")

InvalidStrategy == Raise("ValueError", "Invalid additional_files_strategy", <<>>)
UnknownTemplateType == Raise("ValueError", "Unknown template type", <<>>)

\* mutant: the main template is read whatever the strategy
reads_main_always(additional_files_strategy, additional_files) == TRUE

\* mutant: 'replace' skips the main template whatever additional_files holds
reads_main_unless_replace(additional_files_strategy, additional_files) ==
    additional_files_strategy # "replace"

\* the main template is skipped under 'replace' with additional files
reads_main_template(additional_files_strategy, additional_files) ==
    additional_files_strategy # "replace" \/ additional_files = <<>>

\* ------------------------------------------------------------------ agent generators

TesterTemplatePath == <<"control", "agents", "subagents", "tester.md">>
BlockchainBasePath == <<"control", "agents", "subagents", "blockchain-agent", "base.md">>
BlockchainLangPath(lang) ==
    <<"control", "agents", "subagents", "blockchain-agent", lang \o ".md">>
BlockchainSupportedLanguages == {"elixir", "typescript"}

\* str.title() of the language tags
Title(lang) ==
    CASE lang = "elixir" -> "Elixir"
      [] lang = "typescript" -> "Typescript"
      [] lang = "kotlin" -> "Kotlin"
      [] OTHER -> lang

TaskManagerAgentGenerator_validate_and_read_template(files, config) ==
    LET template_type == Get(config, "template", "default")
        template_file == Get(config, "template_file", <<>>)
        additional_files == Get(config, "additional_files", <<>>)
        additional_files_strategy == Get(config, "additional_files_strategy", "merge")
        main ==
            IF ~reads_main_template(additional_files_strategy, additional_files)
            THEN Ok(<<>>, <<>>, <<>>)
            ELSE IF template_type = "default"
            THEN IF template_file = <<>>
                 THEN Raise("ValueError",
                            "Default template specified but template_file is empty", <<>>)
                 ELSE checked_template(files, template_file,
                                       "Template file not found", "Template file is empty")
            ELSE IF template_type = "custom"
            THEN custom_template(files, template_file)
            ELSE UnknownTemplateType
    IN  IF additional_files_strategy \notin {"merge", "replace"}
        THEN InvalidStrategy
        ELSE IF main.status = "raise"
        THEN main
        ELSE apply_strategy(files, main.body, main.io, additional_files,
                            additional_files_strategy)

TesterAgentGenerator_validate_and_read_template(files, config) ==
    LET template_type == Get(config, "template", "default")
        template_file == Get(config, "template_file", <<>>)
        additional_files == Get(config, "additional_files", <<>>)
        additional_files_strategy == Get(config, "additional_files_strategy", "merge")
        main ==
            IF ~reads_main_template(additional_files_strategy, additional_files)
            THEN Ok(<<>>, <<>>, <<>>)
            ELSE IF template_type = "default"
            THEN checked_template(files, TesterTemplatePath,
                                  "Default template file not found",
                                  "Default template file is empty")
            ELSE IF template_type = "custom"
            THEN custom_template(files, template_file)
            ELSE UnknownTemplateType
    IN  IF additional_files_strategy \notin {"merge", "replace"}
        THEN InvalidStrategy
        ELSE IF template_type = "custom" /\ template_file = <<>>
        THEN Raise("ValueError", "Custom template specified but template_file is empty", <<>>)
        ELSE IF main.status = "raise"
        THEN main
        ELSE apply_strategy(files, main.body, main.io, additional_files,
                            additional_files_strategy)

\* mutant: a language template that does not exist is passed over
blockchain_default_lenient(files, include_base_template, lang) ==
    LET base_ops == IF include_base_template
                    THEN <<Op("exists", BlockchainBasePath)>> ELSE <<>>
        base_missing == include_base_template /\ ~Exists(files, BlockchainBasePath)
        base_parts == IF include_base_template /\ ~base_missing
                      THEN <<Read(files, BlockchainBasePath)>> ELSE <<>>
        ops1 == IF include_base_template /\ ~base_missing
                THEN Append(base_ops, Op("read", BlockchainBasePath)) ELSE base_ops
        lang_path == BlockchainLangPath(lang)
        lang_part == <<NL, NL, "#", " ", Title(lang), " ",
                       "Blockchain Development Specifics", NL, NL>>
                     \o Read(files, lang_path)
        found == lang # "" /\ Exists(files, lang_path) /\ Read(files, lang_path) # <<>>
        parts == IF found THEN Append(base_parts, lang_part) ELSE base_parts
        ops2 == IF lang # "" THEN Append(ops1, Op("exists", lang_path)) ELSE ops1
    IN  IF base_missing
        THEN Raise("FileNotFoundError", "Base template not found", base_ops)
        ELSE IF parts # <<>>
        THEN Ok(join(<<NL>>, parts), join(<<NL>>, parts), ops2)
        ELSE Raise("ValueError", "No template content available", ops2)

\* template == 'default' of the blockchain agent: base part, then language part
blockchain_default_template(files, include_base_template, lang) ==
    LET base_ops == IF include_base_template
                    THEN <<Op("exists", BlockchainBasePath)>> ELSE <<>>
        base_missing == include_base_template /\ ~Exists(files, BlockchainBasePath)
        base_parts == IF include_base_template /\ ~base_missing
                      THEN <<Read(files, BlockchainBasePath)>> ELSE <<>>
        ops1 == IF include_base_template /\ ~base_missing
                THEN Append(base_ops, Op("read", BlockchainBasePath)) ELSE base_ops
        lang_path == BlockchainLangPath(lang)
        lang_part == <<NL, NL, "#", " ", Title(lang), " ",
                       "Blockchain Development Specifics", NL, NL>>
                     \o Read(files, lang_path)
    IN  IF base_missing
        THEN Raise("FileNotFoundError", "Base template not found", base_ops)
        ELSE IF lang # ""
        THEN IF ~Exists(files, lang_path)
             THEN Raise("FileNotFoundError", "Language template not found",
                        Append(ops1, Op("exists", lang_path)))
             ELSE IF Read(files, lang_path) = <<>>
             THEN IF base_parts # <<>>
                  THEN Ok(join(<<NL>>, base_parts), join(<<NL>>, base_parts),
                          ops1 \o <<Op("exists", lang_path), Op("stat", lang_path)>>)
                  ELSE Raise("ValueError", "No template content available",
                             ops1 \o <<Op("exists", lang_path), Op("stat", lang_path)>>)
             ELSE Ok(join(<<NL>>, Append(base_parts, lang_part)),
                     join(<<NL>>, Append(base_parts, lang_part)),
                     ops1 \o <<Op("exists", lang_path), Op("stat", lang_path),
                               Op("read", lang_path)>>)
        ELSE IF base_parts # <<>>
        THEN Ok(join(<<NL>>, base_parts), join(<<NL>>, base_parts), ops1)
        ELSE Raise("ValueError", "No template content available", ops1)

BlockchainAgentGenerator_validate_and_read_template(files, config) ==
    LET template_type == Get(config, "template", "default")
        template_file == Get(config, "template_file", <<>>)
        additional_files == Get(config, "additional_files", <<>>)
        additional_files_strategy == Get(config, "additional_files_strategy", "merge")
        include_base_template == Get(config, "include_base_template", TRUE)
        lang == Get(config, "lang", "")
        main ==
            IF ~reads_main_template(additional_files_strategy, additional_files)
            THEN Ok(<<>>, <<>>, <<>>)
            ELSE IF template_type = "default"
            THEN blockchain_default_template(files, include_base_template, lang)
            ELSE IF template_type = "custom"
            THEN custom_template(files, template_file)
            ELSE UnknownTemplateType
    IN  IF lang # "" /\ lang \notin BlockchainSupportedLanguages
        THEN Raise("ValueError", "Unsupported language", <<>>)
        ELSE IF additional_files_strategy \notin {"merge", "replace"}
        THEN InvalidStrategy
        ELSE IF template_type = "custom" /\ template_file = <<>>
        THEN Raise("ValueError", "Custom template specified but template_file is empty", <<>>)
        ELSE IF main.status = "raise"
        THEN main
        ELSE apply_strategy(files, main.body, main.io, additional_files,
                            additional_files_strategy)

\* ------------------------------------------------------------------ command generators

CleanBasePath == <<"control", "commands", "generic", "clean", "base.md">>
CleanLangPath(lang) == <<"control", "commands", "generic", "clean", lang \o ".md">>
CommitTemplatePath == <<"control", "commands", "generic", "git-commit.md">>
ContextTemplatePath == <<"control", "commands", "generic", "context.md">>
PrompterBasePath == <<"control", "commands", "generic", "prompter.md">>
TestBasePath == <<"control", "commands", "generic", "test", "base.md">>
TestLangPath(lang) == <<"control", "commands", "generic", "test", lang \o ".md">>
OgcTestBasePath == <<"ogc", "control", "commands", "generic", "test", "base.md">>
OgcTestLangPath(lang) == <<"ogc", "control", "commands", "generic", "test", lang \o ".md">>
CommandSupportedLanguages == {"elixir", "kotlin", "typescript"}

\* mutant: the language part comes before the base part
base_and_language_reversed(files, base_template_path, lang_template_path, include_base_template, lang) ==
    LET base_ops == IF include_base_template
                    THEN IF Exists(files, base_template_path)
                         THEN <<Op("exists", base_template_path),
                                Op("read", base_template_path)>>
                         ELSE <<Op("exists", base_template_path)>>
                    ELSE <<>>
        base_parts == IF include_base_template /\ Exists(files, base_template_path)
                      THEN <<Read(files, base_template_path)>> ELSE <<>>
        lang_ops == IF lang # ""
                    THEN IF Exists(files, lang_template_path)
                         THEN <<Op("exists", lang_template_path),
                                Op("read", lang_template_path)>>
                         ELSE <<Op("exists", lang_template_path)>>
                    ELSE <<>>
        lang_parts == IF lang # "" /\ Exists(files, lang_template_path)
                      THEN <<Read(files, lang_template_path)>> ELSE <<>>
        template_content_parts == lang_parts \o base_parts
        ops == base_ops \o lang_ops
    IN  IF template_content_parts # <<>>
        THEN Ok(join(<<NL, NL>>, template_content_parts),
                join(<<NL, NL>>, template_content_parts), ops)
        ELSE IF Exists(files, base_template_path)
        THEN Ok(Read(files, base_template_path), Read(files, base_template_path),
                ops \o <<Op("exists", base_template_path), Op("read", base_template_path)>>)
        ELSE Raise("FileNotFoundError", "No template files found. Base template missing",
                   Append(ops, Op("exists", base_template_path)))

\* mutant: the base part is included whatever include_base_template says
base_and_language_always_base(files, base_template_path, lang_template_path, include_base_template, lang) ==
    LET base_ops == IF Exists(files, base_template_path)
                    THEN <<Op("exists", base_template_path),
                           Op("read", base_template_path)>>
                    ELSE <<Op("exists", base_template_path)>>
        base_parts == IF Exists(files, base_template_path)
                      THEN <<Read(files, base_template_path)>> ELSE <<>>
        lang_ops == IF lang # ""
                    THEN IF Exists(files, lang_template_path)
                         THEN <<Op("exists", lang_template_path),
                                Op("read", lang_template_path)>>
                         ELSE <<Op("exists", lang_template_path)>>
                    ELSE <<>>
        lang_parts == IF lang # "" /\ Exists(files, lang_template_path)
                      THEN <<Read(files, lang_template_path)>> ELSE <<>>
        template_content_parts == base_parts \o lang_parts
        ops == base_ops \o lang_ops
    IN  IF template_content_parts # <<>>
        THEN Ok(join(<<NL, NL>>, template_content_parts),
                join(<<NL, NL>>, template_content_parts), ops)
        ELSE Raise("FileNotFoundError", "No template files found. Base template missing",
                   Append(ops, Op("exists", base_template_path)))

\* template == 'default' of clean and test: base part, language part, fallback to base
base_and_language_template(files, base_template_path, lang_template_path, include_base_template, lang) ==
    LET base_ops == IF include_base_template
                    THEN IF Exists(files, base_template_path)
                         THEN <<Op("exists", base_template_path),
                                Op("read", base_template_path)>>
                         ELSE <<Op("exists", base_template_path)>>
                    ELSE <<>>
        base_parts == IF include_base_template /\ Exists(files, base_template_path)
                      THEN <<Read(files, base_template_path)>> ELSE <<>>
        lang_ops == IF lang # ""
                    THEN IF Exists(files, lang_template_path)
                         THEN <<Op("exists", lang_template_path),
                                Op("read", lang_template_path)>>
                         ELSE <<Op("exists", lang_template_path)>>
                    ELSE <<>>
        lang_parts == IF lang # "" /\ Exists(files, lang_template_path)
                      THEN <<Read(files, lang_template_path)>> ELSE <<>>
        template_content_parts == base_parts \o lang_parts
        ops == base_ops \o lang_ops
    IN  IF template_content_parts # <<>>
        THEN Ok(join(<<NL, NL>>, template_content_parts),
                join(<<NL, NL>>, template_content_parts), ops)
        ELSE IF Exists(files, base_template_path)
        THEN Ok(Read(files, base_template_path), Read(files, base_template_path),
                ops \o <<Op("exists", base_template_path), Op("read", base_template_path)>>)
        ELSE Raise("FileNotFoundError", "No template files found. Base template missing",
                   Append(ops, Op("exists", base_template_path)))

\* clean and test: strategy check, main template, additional files
language_command_template(files, config, base_template_path, lang_template_path) ==
    LET template_type == Get(config, "template", "default")
        template_file == Get(config, "template_file", <<>>)
        additional_files == Get(config, "additional_files", <<>>)
        additional_files_strategy == Get(config, "additional_files_strategy", "merge")
        lang == Get(config, "lang", "")
        include_base_template == Get(config, "include_base_template", FALSE)
        main ==
            IF ~reads_main_template(additional_files_strategy, additional_files)
            THEN Ok(<<>>, <<>>, <<>>)
            ELSE IF template_type = "default"
            THEN base_and_language_template(files, base_template_path, lang_template_path,
                                            include_base_template, lang)
            ELSE IF template_type = "custom"
            THEN custom_template(files, template_file)
            ELSE UnknownTemplateType
    IN  IF additional_files_strategy \notin {"merge", "replace"}
        THEN InvalidStrategy
        ELSE IF main.status = "raise"
        THEN main
        ELSE apply_strategy(files, main.body, main.io, additional_files,
                            additional_files_strategy)

CleanConfigGenerator_validate_and_read_template(files, config) ==
    language_command_template(files, config, CleanBasePath,
                              CleanLangPath(Get(config, "lang", "")))

TestConfigGenerator_validate_and_read_template(files, config) ==
    language_command_template(files, config, TestBasePath,
                              TestLangPath(Get(config, "lang", "")))

OgcTestConfigGenerator_validate_and_read_template(files, config) ==
    language_command_template(files, config, OgcTestBasePath,
                              OgcTestLangPath(Get(config, "lang", "")))

\* mutant: the strategy is validated after the main template was read
single_template_command_late_check(files, config, default_template_path) ==
    LET template_type == Get(config, "template", "default")
        template_file == Get(config, "template_file", <<>>)
        additional_files == Get(config, "additional_files", <<>>)
        additional_files_strategy == Get(config, "additional_files_strategy", "merge")
        main ==
            IF ~reads_main_template(additional_files_strategy, additional_files)
            THEN Ok(<<>>, <<>>, <<>>)
            ELSE IF template_type = "default"
            THEN IF Exists(files, default_template_path)
                 THEN Ok(Read(files, default_template_path),
                         Read(files, default_template_path),
                         <<Op("read", default_template_path)>>)
                 ELSE Raise("ValueError", "Failed to read template file",
                            <<Op("read", default_template_path)>>)
            ELSE IF template_type = "custom"
            THEN custom_template(files, template_file)
            ELSE UnknownTemplateType
    IN  IF main.status = "raise"
        THEN main
        ELSE IF additional_files_strategy \notin {"merge", "replace"}
        THEN Raise("ValueError", "Invalid additional_files_strategy", main.io)
        ELSE apply_strategy(files, main.body, main.io, additional_files,
                            additional_files_strategy)

\* commit and context: one fixed default template, opened without an existence check
single_template_command(files, config, default_template_path) ==
    LET template_type == Get(config, "template", "default")
        template_file == Get(config, "template_file", <<>>)
        additional_files == Get(config, "additional_files", <<>>)
        additional_files_strategy == Get(config, "additional_files_strategy", "merge")
        main ==
            IF ~reads_main_template(additional_files_strategy, additional_files)
            THEN Ok(<<>>, <<>>, <<>>)
            ELSE IF template_type = "default"
            THEN IF Exists(files, default_template_path)
                 THEN Ok(Read(files, default_template_path),
                         Read(files, default_template_path),
                         <<Op("read", default_template_path)>>)
                 ELSE Raise("ValueError", "Failed to read template file",
                            <<Op("read", default_template_path)>>)
            ELSE IF template_type = "custom"
            THEN custom_template(files, template_file)
            ELSE UnknownTemplateType
    IN  IF additional_files_strategy \notin {"merge", "replace"}
        THEN InvalidStrategy
        ELSE IF main.status = "raise"
        THEN main
        ELSE apply_strategy(files, main.body, main.io, additional_files,
                            additional_files_strategy)

CommitConfigGenerator_validate_and_read_template(files, config) ==
    single_template_command(files, config, CommitTemplatePath)

ContextConfigGenerator_validate_and_read_template(files, config) ==
    single_template_command(files, config, ContextTemplatePath)

\* "Apply strategy" of the prompter: empty main content is never returned
prompter_apply_strategy(files, main_template_content, ops, additional_files, additional_files_strategy) ==
    LET additional == _process_additional_files(files, additional_files)
        ops1 == ops \o additional.io
    IN  IF additional.status = "raise"
        THEN Raise(additional.exc, additional.error, ops1)
        ELSE IF additional_files_strategy = "replace" /\ additional_files # <<>>
        THEN Ok(additional.body, main_template_content, ops1)
        ELSE IF additional_files_strategy = "merge"
        THEN IF additional.body # <<>>
             THEN IF main_template_content # <<>>
                  THEN Ok(main_template_content \o AdditionalFilesHeader \o additional.body,
                          main_template_content, ops1)
                  ELSE Ok(additional.body, main_template_content, ops1)
             ELSE IF main_template_content # <<>>
                  THEN Ok(main_template_content, main_template_content, ops1)
                  ELSE Raise("ValueError", "No template content available", ops1)
        ELSE IF main_template_content # <<>>
        THEN Ok(main_template_content, main_template_content, ops1)
        ELSE Raise("ValueError", "No template content available", ops1)

PrompterConfigGenerator_validate_and_read_template(files, config) ==
    LET template_type == Get(config, "template", "default")
        template_file == Get(config, "template_file", <<>>)
        additional_files == Get(config, "additional_files", <<>>)
        additional_files_strategy == Get(config, "additional_files_strategy", "merge")
        include_base_template == Get(config, "include_base_template", FALSE)
        main ==
            IF ~reads_main_template(additional_files_strategy, additional_files)
            THEN Ok(<<>>, <<>>, <<>>)
            ELSE IF template_type = "default"
            THEN IF include_base_template
                 THEN IF Exists(files, PrompterBasePath)
                      THEN Ok(Read(files, PrompterBasePath), Read(files, PrompterBasePath),
                              <<Op("exists", PrompterBasePath), Op("read", PrompterBasePath)>>)
                      ELSE Raise("FileNotFoundError", "Base template not found",
                                 <<Op("exists", PrompterBasePath)>>)
                 ELSE Ok(<<>>, <<>>, <<>>)
            ELSE IF template_type = "custom"
            THEN custom_template(files, template_file)
            ELSE UnknownTemplateType
    IN  IF additional_files_strategy \notin {"merge", "replace"}
        THEN InvalidStrategy
        ELSE IF main.status = "raise"
        THEN main
        ELSE prompter_apply_strategy(files, main.body, main.io, additional_files,
                                     additional_files_strategy)

\* ------------------------------------------------------------------ config validation

\* load_toml_config: the file is missing, is no TOML, or parses
ConfigPath == <<"config.toml">>
load_toml_config(file) ==
    IF file.kind = "missing"
    THEN Raise("FileNotFoundError", "Configuration file not found", <<Op("read", ConfigPath)>>)
    ELSE IF file.kind = "invalid"
    THEN Raise("ValueError", "Invalid TOML configuration", <<Op("read", ConfigPath)>>)
    ELSE Ok(<<>>, <<>>, <<Op("read", ConfigPath)>>)

\* what validate_<name>_config returns: None, the section, or it raises
NoneResult == [status |-> "none", error |-> ""]
SectionResult == [status |-> "config", error |-> ""]
RaiseResult(msg) == [status |-> "raise", error |-> msg]

\* mutant: the enabled flag is not looked at
validate_ignoring_enabled(section) ==
    IF DOMAIN section = {} THEN NoneResult ELSE SectionResult

\* the section is absent or empty, or enabled is false: nothing to generate
validate_enabled(section) ==
    IF DOMAIN section = {}
    THEN NoneResult
    ELSE IF ~Get(section, "enabled", TRUE)
    THEN NoneResult
    ELSE SectionResult

TaskManagerAgentGenerator_validate_task_manager_config(section) == validate_enabled(section)
TesterAgentGenerator_validate_tester_config(section) == validate_enabled(section)
BlockchainAgentGenerator_validate_blockchain_agent_config(section) == validate_enabled(section)
ContextConfigGenerator_validate_context_config(section) == validate_enabled(section)
PrompterConfigGenerator_validate_prompter_config(section) == validate_enabled(section)

\* mutant: the language of the section is not looked at
validate_ignoring_language(section) == validate_enabled(section)

\* clean, and test of the ogc tree: an unsupported language is skipped
validate_enabled_and_language(section) ==
    IF validate_enabled(section).status = "none"
    THEN NoneResult
    ELSE IF Get(section, "lang", "") # ""
            /\ Get(section, "lang", "") \notin CommandSupportedLanguages
    THEN NoneResult
    ELSE SectionResult

CleanConfigGenerator_validate_clean_config(section) == validate_enabled_and_language(section)
OgcTestConfigGenerator_validate_test_config(section) == validate_enabled_and_language(section)

\* mutant: test of the control tree skips an unsupported language
validate_test_config_skipping(section) ==
    IF validate_enabled(section).status = "none"
    THEN NoneResult
    ELSE IF Get(section, "lang", "") # ""
            /\ Get(section, "lang", "") \notin CommandSupportedLanguages
    THEN NoneResult
    ELSE SectionResult

\* test of the control tree: an unsupported language raises
TestConfigGenerator_validate_test_config(section) ==
    IF validate_enabled(section).status = "none"
    THEN NoneResult
    ELSE IF Get(section, "lang", "") # ""
            /\ Get(section, "lang", "") \notin CommandSupportedLanguages
    THEN RaiseResult("Unsupported language")
    ELSE SectionResult

CommitConfigGenerator_validate_commit_config(section) ==
    IF validate_enabled(section).status = "none"
    THEN NoneResult
    ELSE IF Get(section, "vcs", "git") # "git"
    THEN NoneResult
    ELSE SectionResult

\* ------------------------------------------------------------------ writing the document

\* pass-through values carry their Python type and their str() text
StrValue(text) == [type |-> "str", text |-> text]
IntValue(text) == [type |-> "int", text |-> text]
FloatValue(text) == [type |-> "float", text |-> text]
BoolValue(b) == [type |-> "bool", text |-> IF b THEN "True" ELSE "False"]

\* str.lower() of the str() text of a value that is no string
Lower(text) ==
    CASE text = "True" -> "true"
      [] text = "False" -> "false"
      [] OTHER -> text

Quote == "\""

\* the order in which a config section lists its keys (a dict keeps insertion order)
KeyOrder == <<"enabled", "description", "mode", "model", "agent", "temperature",
              "disable", "template", "template_file", "lang", "include_base_template", "vcs",
              "additional_files", "additional_files_strategy", "permissions">>

\* init.py is not running
NoDriver == [status |-> "none", pos |-> 0, results |-> <<>>, invoked |-> <<>>, config |-> <<>>]

\* _format_permissions has not been called
NotFormatted == [called |-> FALSE, value |-> <<>>]

\* Path.parent.mkdir(parents=True, exist_ok=True)
Parents(path) == { SubSeq(path, 1, k) : k \in 1..(Len(path) - 1) }

\* what a write step leaves behind
Written(files, ds, output_path, complete_content) ==
    [fs |-> (output_path :> complete_content) @@ files,
     dirs |-> ds \cup Parents(output_path),
     io |-> <<Op("mkdir", SubSeq(output_path, 1, Len(output_path) - 1)),
              Op("write", output_path)>>]

\* mutant: the output file is opened for appending
write_yaml_config_append(files, ds, config, template_content, output_path, default_description) ==
    Written(files, ds, output_path,
            (IF Exists(files, output_path) THEN Read(files, output_path) ELSE <<>>)
            \o <<"---", NL,
                 "description", ":", " ",
                 Get(config, "description", StrValue(default_description)).text, NL,
                 "agent", ":", " ", Get(config, "agent", StrValue("build")).text, NL,
                 "model", ":", " ",
                 Get(config, "model", StrValue("anthropic/claude-sonnet-4-20250514")).text, NL,
                 "---", NL, NL>>
            \o _strip_frontmatter(template_content))

\* mutant: the frontmatter also carries the template type
write_yaml_config_with_template(files, ds, config, template_content, output_path, default_description) ==
    Written(files, ds, output_path,
            <<"---", NL,
              "template", ":", " ", Get(config, "template", "default"), NL,
              "description", ":", " ",
              Get(config, "description", StrValue(default_description)).text, NL,
              "agent", ":", " ", Get(config, "agent", StrValue("build")).text, NL,
              "model", ":", " ",
              Get(config, "model", StrValue("anthropic/claude-sonnet-4-20250514")).text, NL,
              "---", NL, NL>>
            \o _strip_frontmatter(template_content))

\* mutant: without a description in the section, none is written
write_yaml_config_no_default(files, ds, config, template_content, output_path, default_description) ==
    Written(files, ds, output_path,
            <<"---", NL>>
            \o (IF "description" \in DOMAIN config
                THEN <<"description", ":", " ", config["description"].text, NL>> ELSE <<>>)
            \o <<"agent", ":", " ", Get(config, "agent", StrValue("build")).text, NL,
                 "model", ":", " ",
                 Get(config, "model", StrValue("anthropic/claude-sonnet-4-20250514")).text, NL,
                 "---", NL, NL>>
            \o _strip_frontmatter(template_content))

\* write_yaml_config of the command generators
write_yaml_config(files, ds, config, template_content, output_path, default_description) ==
    LET clean_content == _strip_frontmatter(template_content)
        description == Get(config, "description", StrValue(default_description))
        agent == Get(config, "agent", StrValue("build"))
        model == Get(config, "model", StrValue("anthropic/claude-sonnet-4-20250514"))
        complete_content ==
            <<"---", NL,
              "description", ":", " ", description.text, NL,
              "agent", ":", " ", agent.text, NL,
              "model", ":", " ", model.text, NL,
              "---", NL, NL>> \o clean_content
    IN  Written(files, ds, output_path, complete_content)

\* mutant: the sub-tables keep the names they have in the config
format_permissions_unrenamed(permissions) ==
    (IF Get(permissions, "tools", <<>>) # <<>>
     THEN <<[key |-> "tools", table |-> permissions["tools"]]>> ELSE <<>>)
    \o (IF Get(permissions, "bash_rules", <<>>) # <<>>
        THEN <<[key |-> "bash_rules", table |-> permissions["bash_rules"]]>> ELSE <<>>)
    \o (IF Get(permissions, "edit_rules", <<>>) # <<>>
        THEN <<[key |-> "edit_rules", table |-> permissions["edit_rules"]]>> ELSE <<>>)

\* _format_permissions: tools, bash_rules, edit_rules become tools, bash, edit
_format_permissions(permissions) ==
    IF DOMAIN permissions = {}
    THEN <<>>
    ELSE (IF Get(permissions, "tools", <<>>) # <<>>
          THEN <<[key |-> "tools", table |-> permissions["tools"]]>> ELSE <<>>)
         \o (IF Get(permissions, "bash_rules", <<>>) # <<>>
             THEN <<[key |-> "bash", table |-> permissions["bash_rules"]]>> ELSE <<>>)
         \o (IF Get(permissions, "edit_rules", <<>>) # <<>>
             THEN <<[key |-> "edit", table |-> permissions["edit_rules"]]>> ELSE <<>>)

\* one line of a sub-table of permissions
permission_line(sub_key, sub_value) ==
    IF sub_value.type = "str"
    THEN <<" ", " ", " ", " ", Quote, sub_key, Quote, ":", " ", Quote, sub_value.text, Quote>>
    ELSE <<" ", " ", " ", " ", sub_key, ":", " ", Lower(sub_value.text)>>

\* the lines of one sub-table: its heading, then its entries in their order
permission_lines(entry) ==
    << <<" ", " ", entry.key, ":">> >>
    \o [i \in 1..Len(entry.table) |->
            permission_line(entry.table[i].key, entry.table[i].value)]

RECURSIVE flatten(_)
flatten(seqs) == IF seqs = <<>> THEN <<>> ELSE Head(seqs) \o flatten(Tail(seqs))

\* the frontmatter lines of one key of agent_config
frontmatter_lines(key, value) ==
    IF key = "permissions"
    THEN LET formatted_permissions == _format_permissions(value)
         IN  << <<key, ":">> >>
             \o flatten([i \in 1..Len(formatted_permissions) |->
                             permission_lines(formatted_permissions[i])])
    ELSE IF value.type = "str"
    THEN << <<key, ":", " ", Quote, value.text, Quote>> >>
    ELSE IF value.type \in {"int", "float", "bool"}    \* a bool is an int
    THEN << <<key, ":", " ", value.text>> >>
    ELSE IF value.type = "bool"
    THEN << <<key, ":", " ", Lower(value.text)>> >>
    ELSE << <<key, ":", " ", value.text>> >>

\* mutant: only the description is taken over from the section
extract_description_only(config, config_keys, order) ==
    IF "description" \in DOMAIN config THEN <<"description">> ELSE <<>>

\* _extract_agent_config: the keys of the section that are no config keys, in order
RECURSIVE _extract_agent_config(_, _, _)
_extract_agent_config(config, config_keys, order) ==
    IF order = <<>> THEN <<>>
    ELSE (IF Head(order) \in DOMAIN config /\ Head(order) \notin config_keys
          THEN <<Head(order)>> ELSE <<>>)
         \o _extract_agent_config(config, config_keys, Tail(order))

AgentConfigKeys ==
    {"enabled", "template", "template_file", "additional_files", "additional_files_strategy"}
BlockchainConfigKeys == AgentConfigKeys \cup {"include_base_template", "lang"}

\* write_agent_config of the agent generators
write_agent_config(files, ds, config, template_content, output_path, config_keys) ==
    LET clean_content == _strip_frontmatter(template_content)
        agent_config == _extract_agent_config(config, config_keys, KeyOrder)
        frontmatter ==
            << <<"---">> >>
            \o flatten([i \in 1..Len(agent_config) |->
                            frontmatter_lines(agent_config[i], config[agent_config[i]])])
            \o << <<"---">>, <<>> >>
        complete_content == join(<<NL>>, frontmatter) \o clean_content
    IN  Written(files, ds, output_path, complete_content)

\* ------------------------------------------------------------------ generate()

NotCalled ==
    [status |-> "not called", exc |-> "", error |-> "", body |-> <<>>, main |-> <<>>,
     io |-> <<>>]

Outcome(res, files, ds, template, ops) ==
    [result |-> res, fs |-> files, dirs |-> ds, resolved |-> template, io |-> ops]

\* mutant: the handler reports the error and returns False
generate_returning_false(loaded, checked, template, written, files, ds) ==
    IF loaded.status = "raise"
    THEN Outcome("false", files, ds, NotCalled, loaded.io)
    ELSE IF checked.status = "raise"
    THEN Outcome("false", files, ds, NotCalled, loaded.io)
    ELSE IF checked.status = "none"
    THEN Outcome("false", files, ds, NotCalled, loaded.io)
    ELSE IF template.status = "raise"
    THEN Outcome("false", files, ds, template, loaded.io \o template.io)
    ELSE Outcome("true", written.fs, written.dirs, template,
                 loaded.io \o template.io \o written.io)

\* the body of generate(): load, validate, resolve, write; any exception ends the
\* process through sys.exit(1)
generate(loaded, checked, template, written, files, ds) ==
    IF loaded.status = "raise"
    THEN Outcome("exit1", files, ds, NotCalled, loaded.io)
    ELSE IF checked.status = "raise"
    THEN Outcome("exit1", files, ds, NotCalled, loaded.io)
    ELSE IF checked.status = "none"
    THEN Outcome("false", files, ds, NotCalled, loaded.io)
    ELSE IF template.status = "raise"
    THEN Outcome("exit1", files, ds, template, loaded.io \o template.io)
    ELSE Outcome("true", written.fs, written.dirs, template,
                 loaded.io \o template.io \o written.io)

TaskManagerOutputPath == <<"generated", ".opencode", "agent", "task-manager.md">>
TesterOutputPath == <<"generated", ".opencode", "agent", "subagent", "tester.md">>
BlockchainOutputPath == <<"generated", ".opencode", "agent", "subagent", "blockchain-agent.md">>
CleanOutputPath == <<"generated", ".opencode", "command", "clean.md">>
CommitOutputPath == <<"generated", ".opencode", "command", "commit.md">>
ContextOutputPath == <<"generated", ".opencode", "command", "context.md">>
PrompterOutputPath == <<"generated", ".opencode", "command", "prompter.md">>
TestOutputPath == <<"generated", ".opencode", "command", "test.md">>
OgcTestOutputPath == <<"ogc", "generated", ".opencode", "command", "test.md">>

TaskManagerAgentGenerator_generate(file, files, ds) ==
    generate(load_toml_config(file),
             TaskManagerAgentGenerator_validate_task_manager_config(file.section),
             TaskManagerAgentGenerator_validate_and_read_template(files, file.section),
             write_agent_config(
                 files, ds, file.section,
                 TaskManagerAgentGenerator_validate_and_read_template(files, file.section).body,
                 TaskManagerOutputPath, AgentConfigKeys),
             files, ds)

TesterAgentGenerator_generate(file, files, ds) ==
    generate(load_toml_config(file),
             TesterAgentGenerator_validate_tester_config(file.section),
             TesterAgentGenerator_validate_and_read_template(files, file.section),
             write_agent_config(
                 files, ds, file.section,
                 TesterAgentGenerator_validate_and_read_template(files, file.section).body,
                 TesterOutputPath, AgentConfigKeys),
             files, ds)

BlockchainAgentGenerator_generate(file, files, ds) ==
    generate(load_toml_config(file),
             BlockchainAgentGenerator_validate_blockchain_agent_config(file.section),
             BlockchainAgentGenerator_validate_and_read_template(files, file.section),
             write_agent_config(
                 files, ds, file.section,
                 BlockchainAgentGenerator_validate_and_read_template(files, file.section).body,
                 BlockchainOutputPath, BlockchainConfigKeys),
             files, ds)

CleanConfigGenerator_generate(file, files, ds) ==
    generate(load_toml_config(file),
             CleanConfigGenerator_validate_clean_config(file.section),
             CleanConfigGenerator_validate_and_read_template(files, file.section),
             write_yaml_config(
                 files, ds, file.section,
                 CleanConfigGenerator_validate_and_read_template(files, file.section).body,
                 CleanOutputPath, "Clean command"),
             files, ds)

CommitConfigGenerator_generate(file, files, ds) ==
    generate(load_toml_config(file),
             CommitConfigGenerator_validate_commit_config(file.section),
             CommitConfigGenerator_validate_and_read_template(files, file.section),
             write_yaml_config(
                 files, ds, file.section,
                 CommitConfigGenerator_validate_and_read_template(files, file.section).body,
                 CommitOutputPath, "Commit command"),
             files, ds)

ContextConfigGenerator_generate(file, files, ds) ==
    generate(load_toml_config(file),
             ContextConfigGenerator_validate_context_config(file.section),
             ContextConfigGenerator_validate_and_read_template(files, file.section),
             write_yaml_config(
                 files, ds, file.section,
                 ContextConfigGenerator_validate_and_read_template(files, file.section).body,
                 ContextOutputPath, "Context command"),
             files, ds)

PrompterConfigGenerator_generate(file, files, ds) ==
    generate(load_toml_config(file),
             PrompterConfigGenerator_validate_prompter_config(file.section),
             PrompterConfigGenerator_validate_and_read_template(files, file.section),
             write_yaml_config(
                 files, ds, file.section,
                 PrompterConfigGenerator_validate_and_read_template(files, file.section).body,
                 PrompterOutputPath, "Prompter command"),
             files, ds)

TestConfigGenerator_generate(file, files, ds) ==
    generate(load_toml_config(file),
             TestConfigGenerator_validate_test_config(file.section),
             TestConfigGenerator_validate_and_read_template(files, file.section),
             write_yaml_config(
                 files, ds, file.section,
                 TestConfigGenerator_validate_and_read_template(files, file.section).body,
                 TestOutputPath, "Test command"),
             files, ds)

OgcTestConfigGenerator_generate(file, files, ds) ==
    generate(load_toml_config(file),
             OgcTestConfigGenerator_validate_test_config(file.section),
             OgcTestConfigGenerator_validate_and_read_template(files, file.section),
             write_yaml_config(
                 files, ds, file.section,
                 OgcTestConfigGenerator_validate_and_read_template(files, file.section).body,
                 OgcTestOutputPath, "Test command"),
             files, ds)

\* ------------------------------------------------------------------ the configs and files explored

Generators ==
    {"task-manager", "tester", "blockchain-agent", "clean", "commit", "context",
     "prompter", "test", "ogc-test"}
LanguageAware == {"blockchain-agent", "clean", "test", "ogc-test"}
WithBaseTemplate == LanguageAware \cup {"prompter"}

\* mutant: the test generator of the ogc tree writes below the same root as the others
output_path_one_root(g) ==
    CASE g = "task-manager" -> TaskManagerOutputPath
      [] g = "tester" -> TesterOutputPath
      [] g = "blockchain-agent" -> BlockchainOutputPath
      [] g = "clean" -> CleanOutputPath
      [] g = "commit" -> CommitOutputPath
      [] g = "context" -> ContextOutputPath
      [] g = "prompter" -> PrompterOutputPath
      [] g \in {"test", "ogc-test"} -> TestOutputPath

OutputPath(g) ==
    CASE g = "task-manager" -> TaskManagerOutputPath
      [] g = "tester" -> TesterOutputPath
      [] g = "blockchain-agent" -> BlockchainOutputPath
      [] g = "clean" -> CleanOutputPath
      [] g = "commit" -> CommitOutputPath
      [] g = "context" -> ContextOutputPath
      [] g = "prompter" -> PrompterOutputPath
      [] g = "test" -> TestOutputPath
      [] g = "ogc-test" -> OgcTestOutputPath

\* the fixed template of a generator (its base template where it has two)
BasePath(g) ==
    CASE g = "tester" -> TesterTemplatePath
      [] g = "blockchain-agent" -> BlockchainBasePath
      [] g = "clean" -> CleanBasePath
      [] g = "commit" -> CommitTemplatePath
      [] g = "context" -> ContextTemplatePath
      [] g = "prompter" -> PrompterBasePath
      [] g = "test" -> TestBasePath
      [] g = "ogc-test" -> OgcTestBasePath

LangPath(g, lang) ==
    CASE g = "blockchain-agent" -> BlockchainLangPath(lang)
      [] g = "clean" -> CleanLangPath(lang)
      [] g = "test" -> TestLangPath(lang)
      [] g = "ogc-test" -> OgcTestLangPath(lang)

\* texts of the files; each file has a word of its own
BaseText == <<"B">>
LangText == <<"L">>
CustomText == <<"C">>
ExtraText == <<"X">>
BlankText == <<" ", NL>>
OldDocument == <<"old">>

CustomPath == <<"custom.md">>
AdditionalPool == << <<"extra.md">>, <<"docs", "more.md">>, <<"notes.md">>, <<"last.md">> >>
\* lists of additional files: the first n of the pool, or the generator's own output file
AdditionalLists(g) ==
    { SubSeq(AdditionalPool, 1, n) : n \in 1..MaxAdditional } \cup { <<OutputPath(g)>> }

\* a language no template exists for in the generator's list of supported languages
UnsupportedLanguage(g) == IF g = "blockchain-agent" THEN "kotlin" ELSE "cobol"

\* a key that may be absent from the section
Opt(key, values) == { <<>> } \cup { key :> v : v \in values }

Sections(g) ==
    { ("description" :> StrValue("Desc")) @@ e @@ t @@ tf @@ af @@ st @@ l @@ ib @@ v :
        e \in Opt("enabled", {FALSE}),
        t \in Opt("template", {"custom", "jinja"}),
        tf \in Opt("template_file", {<<>>, CustomPath}),
        af \in Opt("additional_files", AdditionalLists(g)),
        st \in Opt("additional_files_strategy", {"replace", "append"}),
        l \in IF g \in LanguageAware
              THEN Opt("lang", {"elixir", UnsupportedLanguage(g)}) ELSE { <<>> },
        ib \in IF g \in WithBaseTemplate
               THEN Opt("include_base_template", {g # "blockchain-agent"}) ELSE { <<>> },
        v \in IF g = "commit" THEN Opt("vcs", {"svn"}) ELSE { <<>> } }

ConfigFiles(g) ==
    { [kind |-> "missing"], [kind |-> "invalid"], [kind |-> "toml", section |-> <<>>] }
    \cup { [kind |-> "toml", section |-> sec] : sec \in Sections(g) }

\* the files a run can look at, each with the contents tried for it
FileChoice(path, texts) == [path |-> path, texts |-> texts]

\* a section that is disabled, or names an unknown strategy or template type, is tried
\* with each file present or missing; the other sections also with empty and blank files
Refused(sec) ==
    \/ ~Get(sec, "enabled", TRUE)
    \/ Get(sec, "additional_files_strategy", "merge") \notin {"merge", "replace"}
    \/ Get(sec, "template", "default") \notin {"default", "custom"}
Tried(sec, texts) == IF Refused(sec) THEN texts \ {<<>>, BlankText} ELSE texts

\* the template files the template type does not point at are present or missing
FixedTemplateTexts(sec, texts) ==
    IF Get(sec, "template", "default") = "custom"
    THEN texts \ {<<>>} ELSE Tried(sec, texts)
CustomTemplateTexts(g, sec, texts) ==
    IF Get(sec, "template", "default") = "custom" \/ g = "task-manager"
    THEN Tried(sec, texts) ELSE texts \ {<<>>}

\* the contents tried for entry i of n additional files: the first is missing, blank or
\* holds text; of several the last is missing or holds text, the ones between hold text
AdditionalTexts(i, n) ==
    IF i = 1 THEN {Missing, BlankText, ExtraText}
    ELSE IF i = n THEN {Missing, <<"Y", ToString(i)>>}
    ELSE {<<"Y", ToString(i)>>}

RelevantFiles(g, sec) ==
    << FileChoice(OutputPath(g), {Missing, OldDocument}) >>
    \o (IF g = "task-manager" THEN <<>>
        ELSE << FileChoice(BasePath(g),
                           FixedTemplateTexts(sec, {Missing, <<>>, BaseText})) >>)
    \o (IF g \in LanguageAware /\ "lang" \in DOMAIN sec
        THEN << FileChoice(LangPath(g, sec["lang"]),
                           IF sec["lang"] = UnsupportedLanguage(g)
                           THEN {Missing, LangText}
                           ELSE FixedTemplateTexts(sec, {Missing, <<>>, LangText})) >>
        ELSE <<>>)
    \o (IF Get(sec, "template_file", <<>>) # <<>>
        THEN << FileChoice(CustomPath,
                           CustomTemplateTexts(g, sec, {Missing, <<>>, CustomText})) >>
        ELSE <<>>)
    \o (IF Get(sec, "additional_files", <<>>) = <<OutputPath(g)>>
        THEN <<>>
        ELSE [i \in 1..Len(Get(sec, "additional_files", <<>>)) |->
                 FileChoice(sec["additional_files"][i],
                            Tried(sec, AdditionalTexts(
                                           i, Len(sec["additional_files"]))))])

RECURSIVE FileSystems(_)
FileSystems(choices) ==
    IF choices = <<>> THEN { <<>> }
    ELSE { (Head(choices).path :> text) @@ rest :
               text \in Head(choices).texts, rest \in FileSystems(Tail(choices)) }

\* ------------------------------------------------------------------ the generator processes

Init ==
    /\ gen \in Generators
    /\ cfgfile \in ConfigFiles(gen)
    /\ fs \in FileSystems(RelevantFiles(gen, IF cfgfile.kind = "toml"
                                             THEN cfgfile.section ELSE <<>>))
    /\ dirs = {}
    /\ runs = 0
    /\ result = "none"
    /\ resolved = NotCalled
    /\ io = <<>>
    /\ starts = <<>>
    /\ history = <<>>
    /\ content = <<>>
    /\ stripped = NotRun
    /\ formatted = NotFormatted
    /\ procs = <<>>
    /\ driver = NoDriver

\* one run of the script: generate() is called and the process ends
Run(outcome) ==
    /\ runs < MaxRuns
    /\ runs' = runs + 1
    /\ starts' = Append(starts, fs)
    /\ fs' = outcome.fs
    /\ dirs' = outcome.dirs
    /\ result' = outcome.result
    /\ resolved' = outcome.resolved
    /\ io' = outcome.io
    /\ history' = Append(history, Read(outcome.fs, OutputPath(gen)))
    /\ UNCHANGED <<gen, cfgfile, content, stripped, formatted, procs, driver>>

GenerateTaskManager ==
    gen = "task-manager" /\ Run(TaskManagerAgentGenerator_generate(cfgfile, fs, dirs))
GenerateTester ==
    gen = "tester" /\ Run(TesterAgentGenerator_generate(cfgfile, fs, dirs))
GenerateBlockchain ==
    gen = "blockchain-agent" /\ Run(BlockchainAgentGenerator_generate(cfgfile, fs, dirs))
GenerateClean ==
    gen = "clean" /\ Run(CleanConfigGenerator_generate(cfgfile, fs, dirs))
GenerateCommit ==
    gen = "commit" /\ Run(CommitConfigGenerator_generate(cfgfile, fs, dirs))
GenerateContext ==
    gen = "context" /\ Run(ContextConfigGenerator_generate(cfgfile, fs, dirs))
GeneratePrompter ==
    gen = "prompter" /\ Run(PrompterConfigGenerator_generate(cfgfile, fs, dirs))
GenerateTest ==
    gen = "test" /\ Run(TestConfigGenerator_generate(cfgfile, fs, dirs))
GenerateOgcTest ==
    gen = "ogc-test" /\ Run(OgcTestConfigGenerator_generate(cfgfile, fs, dirs))

Next ==
    \/ GenerateTaskManager
    \/ GenerateTester
    \/ GenerateBlockchain
    \/ GenerateClean
    \/ GenerateCommit
    \/ GenerateContext
    \/ GeneratePrompter
    \/ GenerateTest
    \/ GenerateOgcTest

Spec == Init /\ [][Next]_vars

\* ------------------------------------------------------------------ fragments with frontmatter

\* a template fragment that carries a frontmatter block of its own, naming its text
Fronted(text) == <<"---", NL, "origin", ":", " ">> \o text \o <<NL, "---", NL, NL>> \o text
PlainOrFronted(text) == {text, Fronted(text)}

\* enabled sections whose templates and additional files all exist
FrontSections(g) ==
    { ("description" :> StrValue("Desc")) @@ t @@ tf @@ af @@ st @@ l @@ ib :
        t \in Opt("template", {"custom"}),
        tf \in Opt("template_file", {CustomPath}),
        af \in Opt("additional_files", { <<AdditionalPool[1]>> }),
        st \in Opt("additional_files_strategy", {"replace"}),
        l \in IF g \in LanguageAware THEN Opt("lang", {"elixir"}) ELSE { <<>> },
        ib \in IF g \in WithBaseTemplate
               THEN Opt("include_base_template", {TRUE, FALSE}) ELSE { <<>> } }

FrontFiles(g, sec) ==
    << FileChoice(OutputPath(g), {Missing}) >>
    \o (IF g = "task-manager" THEN <<>>
        ELSE << FileChoice(BasePath(g), PlainOrFronted(BaseText)) >>)
    \o (IF g \in LanguageAware /\ "lang" \in DOMAIN sec
        THEN << FileChoice(LangPath(g, sec["lang"]), PlainOrFronted(LangText)) >>
        ELSE <<>>)
    \o (IF "template_file" \in DOMAIN sec
        THEN << FileChoice(CustomPath, PlainOrFronted(CustomText)) >>
        ELSE <<>>)
    \o (IF "additional_files" \in DOMAIN sec
        THEN << FileChoice(AdditionalPool[1], PlainOrFronted(ExtraText)) >>
        ELSE <<>>)

InitFront ==
    /\ gen \in Generators
    /\ cfgfile \in { [kind |-> "toml", section |-> sec] : sec \in FrontSections(gen) }
    /\ fs \in FileSystems(FrontFiles(gen, cfgfile.section))
    /\ dirs = {}
    /\ runs = 0
    /\ result = "none"
    /\ resolved = NotCalled
    /\ io = <<>>
    /\ starts = <<>>
    /\ history = <<>>
    /\ content = <<>>
    /\ stripped = NotRun
    /\ formatted = NotFormatted
    /\ procs = <<>>
    /\ driver = NoDriver

SpecFront == InitFront /\ [][Next]_vars

\* ------------------------------------------------------------------ Frontmatter Stripper alone

InitStrip ==
    /\ content \in StripInputs
    /\ stripped = NotRun
    /\ formatted = NotFormatted
    /\ procs = <<>>
    /\ driver = NoDriver
    /\ gen = "none"
    /\ cfgfile = [kind |-> "missing"]
    /\ fs = <<>>
    /\ dirs = {}
    /\ runs = 0
    /\ result = "none"
    /\ resolved = NotCalled
    /\ io = <<>>
    /\ starts = <<>>
    /\ history = <<>>

CallStrip ==
    /\ stripped = NotRun
    /\ stripped' = _strip_frontmatter(content)
    /\ UNCHANGED <<content, genVars, formatted, procs, driver>>

\* the caller hands the result back to the stripper
Restrip ==
    /\ stripped # NotRun
    /\ stripped # content
    /\ content' = stripped
    /\ stripped' = NotRun
    /\ UNCHANGED <<genVars, formatted, procs, driver>>

NextStrip == CallStrip \/ Restrip

SpecStrip == InitStrip /\ [][NextStrip]_vars

\* ------------------------------------------------------------------ the writers alone

AgentGenerators == {"task-manager", "tester", "blockchain-agent"}
CommandGenerators == Generators \ AgentGenerators

\* the keys _extract_agent_config leaves out
ConfigKeys(g) == IF g = "blockchain-agent" THEN BlockchainConfigKeys ELSE AgentConfigKeys

\* the description a command writer falls back to
DefaultDescription(g) ==
    CASE g = "clean" -> "Clean command"
      [] g = "commit" -> "Commit command"
      [] g = "context" -> "Context command"
      [] g = "prompter" -> "Prompter command"
      [] g \in {"test", "ogc-test"} -> "Test command"

\* the keys a command generator reads to steer generation
CommandControlKeys(g) ==
    AgentConfigKeys
    \cup (IF g \in LanguageAware THEN {"lang"} ELSE {})
    \cup (IF g \in WithBaseTemplate THEN {"include_base_template"} ELSE {})
    \cup (IF g = "commit" THEN {"vcs"} ELSE {})

\* the keys the generator reads to steer generation, all set at once
ControlBundle(g) ==
    ("enabled" :> TRUE) @@ ("template" :> "custom") @@ ("template_file" :> CustomPath)
    @@ ("additional_files" :> << <<"extra.md">> >>)
    @@ ("additional_files_strategy" :> "replace")
    @@ (IF g \in LanguageAware THEN "lang" :> "elixir" ELSE <<>>)
    @@ (IF g \in WithBaseTemplate THEN "include_base_template" :> FALSE ELSE <<>>)
    @@ (IF g = "commit" THEN "vcs" :> "git" ELSE <<>>)

\* sub-tables of a permissions table
PermissionEntry(key, value) == [key |-> key, value |-> value]
ToolsTable == <<PermissionEntry("read", BoolValue(TRUE)), PermissionEntry("write", BoolValue(FALSE))>>
BashRulesTable == <<PermissionEntry("git status", StrValue("allow"))>>
EditRulesTable == <<PermissionEntry("*.md", StrValue("allow")), PermissionEntry("depth", IntValue("3"))>>

PermissionTables ==
    { t @@ b @@ e @@ w :
        t \in Opt("tools", {<<>>, ToolsTable}),
        b \in Opt("bash_rules", {BashRulesTable}),
        e \in Opt("edit_rules", {EditRulesTable}),
        w \in Opt("web_rules", {BashRulesTable}) }

\* an agent section is tried with every permissions table, a command section (whose
\* writer looks at description, agent and model only) with one
WriterSections(g) ==
    { d @@ a @@ m @@ t @@ b @@ p @@ c :
        d \in Opt("description", {StrValue("Desc")}),
        a \in IF g \in AgentGenerators THEN { <<>> } ELSE Opt("agent", {StrValue("plan")}),
        m \in Opt("model", {StrValue("m1")}),
        t \in Opt("temperature", {FloatValue("0.1")}),
        b \in IF g \in AgentGenerators THEN Opt("disable", {BoolValue(TRUE)}) ELSE { <<>> },
        p \in IF g \in AgentGenerators
               THEN Opt("permissions", PermissionTables)
               ELSE Opt("permissions", {("tools" :> ToolsTable)}),
        c \in { <<>>, ControlBundle(g) } }

\* the template content handed to the writer
WriterContents ==
    { <<>>, <<"T">>, <<NL, "T">>, <<"---", NL, "title", NL, "---", NL, NL, "T">> }

InitWrite ==
    /\ gen \in Generators
    /\ cfgfile \in { [kind |-> "toml", section |-> sec] : sec \in WriterSections(gen) }
    /\ content \in WriterContents
    /\ fs \in FileSystems(<< FileChoice(OutputPath(gen), {Missing, OldDocument}) >>)
    /\ dirs = {}
    /\ runs = 0
    /\ result = "none"
    /\ resolved = NotCalled
    /\ io = <<>>
    /\ starts = <<>>
    /\ history = <<>>
    /\ stripped = NotRun
    /\ formatted = NotFormatted
    /\ procs = <<>>
    /\ driver = NoDriver

\* the writer is called once with the section and the template content
WriteStep(written) ==
    /\ runs = 0
    /\ runs' = 1
    /\ starts' = Append(starts, fs)
    /\ fs' = written.fs
    /\ dirs' = written.dirs
    /\ io' = written.io
    /\ history' = Append(history, Read(written.fs, OutputPath(gen)))
    /\ UNCHANGED <<gen, cfgfile, result, resolved, content, stripped, procs, driver>>

WriteAgentConfig ==
    /\ gen \in AgentGenerators
    /\ WriteStep(write_agent_config(fs, dirs, cfgfile.section, content, OutputPath(gen),
                                    ConfigKeys(gen)))
    /\ formatted' = IF "permissions" \in DOMAIN cfgfile.section
                    THEN [called |-> TRUE,
                          value |-> _format_permissions(cfgfile.section["permissions"])]
                    ELSE formatted

WriteYamlConfig ==
    /\ gen \in CommandGenerators
    /\ WriteStep(write_yaml_config(fs, dirs, cfgfile.section, content, OutputPath(gen),
                                   DefaultDescription(gen)))
    /\ UNCHANGED formatted

NextWrite == WriteAgentConfig \/ WriteYamlConfig

SpecWrite == InitWrite /\ [][NextWrite]_vars

\* ------------------------------------------------------------------ two generators at once

\* generate() of generator g
Generate(g, file, files, ds) ==
    CASE g = "task-manager" -> TaskManagerAgentGenerator_generate(file, files, ds)
      [] g = "tester" -> TesterAgentGenerator_generate(file, files, ds)
      [] g = "blockchain-agent" -> BlockchainAgentGenerator_generate(file, files, ds)
      [] g = "clean" -> CleanConfigGenerator_generate(file, files, ds)
      [] g = "commit" -> CommitConfigGenerator_generate(file, files, ds)
      [] g = "context" -> ContextConfigGenerator_generate(file, files, ds)
      [] g = "prompter" -> PrompterConfigGenerator_generate(file, files, ds)
      [] g = "test" -> TestConfigGenerator_generate(file, files, ds)
      [] g = "ogc-test" -> OgcTestConfigGenerator_generate(file, files, ds)

\* the generator scripts: those init.py runs, in its sorted order, then the test
\* generator of the ogc tree
GeneratorOrder ==
    <<"blockchain-agent", "task-manager", "tester", "clean", "commit", "context",
      "prompter", "test", "ogc-test">>

\* the sections of generator g when it runs beside generator other: its template is the
\* fixed one or the other's output as a custom template; its additional files are none,
\* a file of its own, or the other's output, merged or replacing
PairSections(g, other) ==
    { ("description" :> StrValue("Desc")) @@ t @@ af :
        t \in { IF g = "task-manager" THEN "template_file" :> CustomPath ELSE <<>>,
                ("template" :> "custom") @@ ("template_file" :> OutputPath(other)) },
        af \in { <<>>,
                 "additional_files" :> << <<"extra.md">> >>,
                 "additional_files" :> <<OutputPath(other)>>,
                 ("additional_files" :> <<OutputPath(other)>>)
                     @@ ("additional_files_strategy" :> "replace") } }

\* the project root both run over: every template holds text, the output files are
\* there from an earlier run or not
PairFileSystems(g1, g2) ==
    { (OutputPath(g1) :> o) @@ (OutputPath(g2) :> o)
      @@ (CustomPath :> CustomText) @@ (<<"extra.md">> :> ExtraText)
      @@ (IF g1 = "task-manager" THEN <<>> ELSE BasePath(g1) :> BaseText)
      @@ (IF g2 = "task-manager" THEN <<>> ELSE BasePath(g2) :> BaseText) :
        o \in {Missing, OldDocument} }

Process(g, sec) ==
    [gen |-> g, file |-> [kind |-> "toml", section |-> sec], pc |-> "start",
     result |-> "none", pending |-> <<>>, io |-> <<>>]

InitPair ==
    /\ \E i \in 1..Len(GeneratorOrder), j \in 1..Len(GeneratorOrder) :
           /\ i < j
           /\ procs \in { <<Process(GeneratorOrder[i], s1), Process(GeneratorOrder[j], s2)>> :
                              s1 \in PairSections(GeneratorOrder[i], GeneratorOrder[j]),
                              s2 \in PairSections(GeneratorOrder[j], GeneratorOrder[i]) }
           /\ fs \in PairFileSystems(GeneratorOrder[i], GeneratorOrder[j])
    /\ starts = <<fs>>
    /\ dirs = {}
    /\ gen = "none"
    /\ cfgfile = [kind |-> "missing"]
    /\ runs = 0
    /\ result = "none"
    /\ resolved = NotCalled
    /\ io = <<>>
    /\ history = <<>>
    /\ content = <<>>
    /\ stripped = NotRun
    /\ formatted = NotFormatted
    /\ driver = NoDriver

\* process p loads its config, validates it and resolves its template: everything
\* generate() reads, it reads here; what it will write is fixed from then on
ResolveStep(p) ==
    /\ procs[p].pc = "start"
    /\ LET outcome == Generate(procs[p].gen, procs[p].file, fs, dirs)
       IN  procs' = [procs EXCEPT
                        ![p].pc = IF outcome.result = "true" THEN "resolved" ELSE "done",
                        ![p].result = outcome.result,
                        ![p].pending = IF outcome.result = "true"
                                       THEN Read(outcome.fs, OutputPath(procs[p].gen))
                                       ELSE <<>>,
                        ![p].io = outcome.io]
    /\ UNCHANGED <<genVars, content, stripped, formatted, driver>>

\* process p creates the parent directories and writes its document
WriteOutput(p) ==
    /\ procs[p].pc = "resolved"
    /\ fs' = (OutputPath(procs[p].gen) :> procs[p].pending) @@ fs
    /\ dirs' = dirs \cup Parents(OutputPath(procs[p].gen))
    /\ procs' = [procs EXCEPT ![p].pc = "done"]
    /\ UNCHANGED <<gen, cfgfile, runs, result, resolved, io, starts, history,
                   content, stripped, formatted, driver>>

NextPair == \E p \in {1, 2} : ResolveStep(p) \/ WriteOutput(p)

SpecPair == InitPair /\ [][NextPair]_vars

\* ------------------------------------------------------------------ failing writes

\* the write step can fail in mkdir(), in open(), or in f.write() / close() after open()
\* has truncated the file and `at` tokens of the document have reached it
WriteFaults ==
    { [kind |-> k, at |-> 0] : k \in {"none", "mkdir", "open"} }
    \cup { [kind |-> "write", at |-> n] : n \in 0..MaxFlushed }

\* mutant: the document is written to the side and renamed over the output file
write_fault_atomic(outcome, files, ds, output_path, fault) ==
    LET before == SubSeq(outcome.io, 1, Len(outcome.io) - 2)
        parent == SubSeq(output_path, 1, Len(output_path) - 1)
    IN  IF outcome.result # "true" \/ fault.kind = "none"
        THEN outcome
        ELSE IF fault.kind = "mkdir"
        THEN Outcome("exit1", files, ds, outcome.resolved,
                     Append(before, Op("mkdir", parent)))
        ELSE IF fault.kind = "open"
        THEN Outcome("exit1", files, ds \cup Parents(output_path), outcome.resolved,
                     before \o <<Op("mkdir", parent), Op("open", output_path)>>)
        ELSE Outcome("exit1", files, ds \cup Parents(output_path), outcome.resolved,
                     outcome.io)

\* a run of generate() whose write step meets the fault: the OSError is caught by the
\* handler of generate(), which ends the process through sys.exit(1)
write_fault(outcome, files, ds, output_path, fault) ==
    LET before == SubSeq(outcome.io, 1, Len(outcome.io) - 2)
        parent == SubSeq(output_path, 1, Len(output_path) - 1)
        complete_content == Read(outcome.fs, output_path)
        flushed == IF fault.at < Len(complete_content)
                   THEN fault.at ELSE Len(complete_content) - 1
    IN  IF outcome.result # "true" \/ fault.kind = "none"
        THEN outcome
        ELSE IF fault.kind = "mkdir"
        THEN Outcome("exit1", files, ds, outcome.resolved,
                     Append(before, Op("mkdir", parent)))
        ELSE IF fault.kind = "open"
        THEN Outcome("exit1", files, ds \cup Parents(output_path), outcome.resolved,
                     before \o <<Op("mkdir", parent), Op("open", output_path)>>)
        ELSE Outcome("exit1",
                     (output_path :> SubSeq(complete_content, 1, flushed)) @@ files,
                     ds \cup Parents(output_path), outcome.resolved, outcome.io)

\* sections that are refused, fail to resolve, or reach the write step
FaultSections(g) ==
    { ("description" :> StrValue("Desc")) @@ e @@ t @@ tf :
        e \in Opt("enabled", {FALSE}),
        t \in Opt("template", {"custom"}),
        tf \in IF g = "task-manager" THEN { "template_file" :> CustomPath } ELSE { <<>> } }

FaultFiles(g) ==
    << FileChoice(OutputPath(g), {Missing, OldDocument}),
       IF g = "task-manager"
       THEN FileChoice(CustomPath, {Missing, CustomText})
       ELSE FileChoice(BasePath(g), {Missing, BaseText}) >>

InitFault ==
    /\ gen \in Generators
    /\ cfgfile \in { [kind |-> "missing"] }
                   \cup { [kind |-> "toml", section |-> sec] : sec \in FaultSections(gen) }
    /\ fs \in FileSystems(FaultFiles(gen))
    /\ dirs = {}
    /\ runs = 0
    /\ result = "none"
    /\ resolved = NotCalled
    /\ io = <<>>
    /\ starts = <<>>
    /\ history = <<>>
    /\ content = <<>>
    /\ stripped = NotRun
    /\ formatted = NotFormatted
    /\ procs = <<>>
    /\ driver = NoDriver

GenerateWithFault ==
    \E fault \in WriteFaults :
        Run(write_fault(Generate(gen, cfgfile, fs, dirs), fs, dirs, OutputPath(gen), fault))

NextFault == GenerateWithFault

SpecFault == InitFault /\ [][NextFault]_vars

\* ------------------------------------------------------------------ the driver init.py

\* discover_generators: the scripts of the two directories, each list sorted
discover_generators ==
    [agent_scripts |-> <<"blockchain_agent", "task_manager", "tester">>,
     command_scripts |-> <<"clean", "commit", "context", "prompter", "test">>]

\* the keys of class_name_map
class_name_map ==
    {"coder_agent", "code_pattern_analyst", "codebase_agent", "debugger", "documentation",
     "reviewer", "task_manager", "tester", "clean", "commit", "context", "optimizer",
     "prompter", "test", "worktrees"}

\* the generator a script defines
GeneratorOf(stem) ==
    CASE stem = "blockchain_agent" -> "blockchain-agent"
      [] stem = "task_manager" -> "task-manager"
      [] OTHER -> stem

\* import_generator_class: the class of the script, or None ("")
import_generator_class(stem) == IF stem \in class_name_map THEN GeneratorOf(stem) ELSE ""

\* run_generator: the entry for a generate() that returned; sys.exit(1) inside
\* generate() raises SystemExit, which `except Exception` does not catch
run_generator(outcome) ==
    IF outcome.result = "exit1"
    THEN [raised |-> "SystemExit", success |-> FALSE, error |-> "", skipped |-> FALSE]
    ELSE [raised |-> "", success |-> outcome.result = "true", error |-> "",
          skipped |-> outcome.result # "true"]

ImportFailed ==
    [success |-> FALSE, error |-> "Could not import generator class", skipped |-> FALSE]

\* the scripts in the order main() goes through them, each with its result name
Scripts ==
    [i \in 1..Len(discover_generators.agent_scripts) |->
        [kind |-> "agent", stem |-> discover_generators.agent_scripts[i]]]
    \o [i \in 1..Len(discover_generators.command_scripts) |->
           [kind |-> "command", stem |-> discover_generators.command_scripts[i]]]

\* the section of a generator in config.toml: complete, disabled, or with a template type
\* no generator knows
DriverSections(g) ==
    LET complete == ("description" :> StrValue("Desc"))
                    @@ (IF g = "task-manager" THEN "template_file" :> CustomPath ELSE <<>>)
    IN  IF g = "blockchain-agent" THEN { complete }
        ELSE { complete, ("enabled" :> FALSE) @@ complete, ("template" :> "jinja") @@ complete }

DriverConfigs ==
    FileSystems([i \in 1..Len(Scripts) |->
                    FileChoice(Scripts[i].stem,
                               { [kind |-> "toml", section |-> sec] :
                                     sec \in DriverSections(GeneratorOf(Scripts[i].stem)) })])

\* every template is in place
DriverFiles ==
    [p \in { BasePath(GeneratorOf(Scripts[i].stem)) : i \in 3..Len(Scripts) }
           \cup { BlockchainBasePath, CustomPath }
        |-> IF p = CustomPath THEN CustomText ELSE BaseText]

InitDriver ==
    /\ driver \in { [status |-> "running", pos |-> 1, results |-> <<>>, invoked |-> <<>>,
                      config |-> c] : c \in DriverConfigs }
    /\ fs = DriverFiles
    /\ dirs = {}
    /\ gen = "none"
    /\ cfgfile = [kind |-> "missing"]
    /\ runs = 0
    /\ result = "none"
    /\ resolved = NotCalled
    /\ io = <<>>
    /\ starts = <<>>
    /\ history = <<>>
    /\ content = <<>>
    /\ stripped = NotRun
    /\ formatted = NotFormatted
    /\ procs = <<>>

\* one pass of a loop of main(): import the class, run the generator, record the result
RunScript(kind) ==
    /\ driver.status = "running"
    /\ driver.pos <= Len(Scripts)
    /\ Scripts[driver.pos].kind = kind
    /\ LET stem == Scripts[driver.pos].stem
           generator_class == import_generator_class(stem)
           outcome == Generate(generator_class, driver.config[stem], fs, dirs)
           entry == run_generator(outcome)
       IN  IF generator_class = ""
           THEN /\ driver' = [driver EXCEPT
                                 !.results = Append(@, [name |-> <<kind, stem>>] @@ ImportFailed),
                                 !.pos = @ + 1]
                /\ UNCHANGED <<fs, dirs>>
           ELSE /\ fs' = outcome.fs
                /\ dirs' = outcome.dirs
                /\ driver' =
                       IF entry.raised = "SystemExit"
                       THEN [driver EXCEPT !.status = "exit1", !.invoked = Append(@, stem)]
                       ELSE [driver EXCEPT
                                !.results = Append(@, [name |-> <<kind, stem>>,
                                                       success |-> entry.success,
                                                       error |-> entry.error,
                                                       skipped |-> entry.skipped]),
                                !.invoked = Append(@, stem),
                                !.pos = @ + 1]
    /\ UNCHANGED <<gen, cfgfile, runs, result, resolved, io, starts, history,
                   content, stripped, formatted, procs>>

RunAgentScript == RunScript("agent")
RunCommandScript == RunScript("command")

\* format_results: the summary is printed once both loops are through
FormatResults ==
    /\ driver.status = "running"
    /\ driver.pos > Len(Scripts)
    /\ driver' = [driver EXCEPT !.status = "summary"]
    /\ UNCHANGED <<genVars, content, stripped, formatted, procs>>

NextDriver == RunAgentScript \/ RunCommandScript \/ FormatResults

SpecDriver == InitDriver /\ [][NextDriver]_vars

\* ------------------------------------------------------------------ claims: Frontmatter Stripper

IsDelimiter(line) == strip(line) = <<"---">>
IsBlank(line) == strip(line) = <<>>
StripRan == stripped # NotRun

\* the text that follows line i of lines once the blank lines right after it are dropped
AfterBlankRun(lines, i) ==
    LET rest == { k \in (i + 1)..Len(lines) : ~IsBlank(lines[k]) }
    IN  IF rest = {} THEN <<>> ELSE join(<<NL>>, SubSeq(lines, Min(rest), Len(lines)))

\* C5 as stated: first line exactly '---', closing line the first later line that is
\* exactly '---'; the result is the text after that line less its leading blank lines.
C5_AsStated ==
    StripRan =>
        LET lines == split(content)
            exact == { i \in 2..Len(lines) : lines[i] = <<"---">> }
        IN  (lines[1] = <<"---">> /\ exact # {}) =>
                stripped = AfterBlankRun(lines, Min(exact))

\* C5 (amended): a delimiter is a line that is '---' once surrounding whitespace is
\* stripped.  If the first line is a delimiter and a later delimiter exists, the result
\* is the lines after the first later delimiter, leading blank lines removed, the
\* remaining lines unchanged and in order.
C5_StripWellFormed ==
    StripRan =>
        LET lines == split(content)
        IN  \A i \in 2..Len(lines) :
                (/\ IsDelimiter(lines[1])
                 /\ IsDelimiter(lines[i])
                 /\ \A j \in 2..(i - 1) : ~IsDelimiter(lines[j]))
                => stripped = AfterBlankRun(lines, i)

\* a well-formed block was stripped, blank lines followed the closing delimiter and
\* text remained
C5_Witness ==
    /\ StripRan
    /\ content = <<"---", NL, "---", NL, " ", NL, "a">>
    /\ stripped = <<"a">>

\* C6 as stated: first line not exactly '---', or no later line exactly '---',
\* gives the input back.
C6_AsStated ==
    StripRan =>
        LET lines == split(content)
        IN  (lines[1] # <<"---">> \/ \A i \in 2..Len(lines) : lines[i] # <<"---">>)
                => stripped = content

\* C6 (amended): if the first line is no delimiter (not '---' once surrounding
\* whitespace is stripped), or no later line is a delimiter, the input is returned
\* unchanged; the empty text is returned unchanged.
C6_StripIdentity ==
    StripRan =>
        LET lines == split(content)
        IN  /\ (~IsDelimiter(lines[1]) \/ \A i \in 2..Len(lines) : ~IsDelimiter(lines[i]))
                => stripped = content
            /\ content = <<>> => stripped = <<>>

\* an opened but never closed block came back unchanged
C6_Witness ==
    /\ StripRan
    /\ content = <<"---", NL, "a", NL, NL, "a">>
    /\ stripped = content

\* ------------------------------------------------------------------ claims: generator runs

Ran == runs > 0
Section == IF cfgfile.kind = "toml" THEN cfgfile.section ELSE <<>>
Strategy == Get(Section, "additional_files_strategy", "merge")
Listed == Get(Section, "additional_files", <<>>)
TemplateType == Get(Section, "template", "default")
TemplateFile == Get(Section, "template_file", <<>>)
Resolved == resolved.status # "not called"

\* the files as the last run found them
Before == starts[Len(starts)]
OutputDocument == Read(fs, OutputPath(gen))

IsPrefix(p, s) == Len(p) <= Len(s) /\ SubSeq(s, 1, Len(p)) = p
Contains(s, sub) ==
    \E k \in 0..(Len(s) - Len(sub)) : SubSeq(s, k + 1, k + Len(sub)) = sub
Words(s) == { s[i] : i \in 1..Len(s) }

\* the fragment of a listed file, and the fragments of the files that hold text
Fragment(files, path) == <<"##", " ", Name(path), NL, NL>> \o Read(files, path)
HasText(files, path) == strip(Read(files, path)) # <<>>
Fragments(files, paths) ==
    LET holding == SelectSeq(paths, LAMBDA p : HasText(files, p))
    IN  join(<<NL, NL>>, [i \in 1..Len(holding) |-> Fragment(files, holding[i])])

\* the template files the section points the generator at
TemplatePaths ==
    (IF gen \in Generators \ {"task-manager"} THEN {BasePath(gen)} ELSE {})
    \cup (IF gen \in LanguageAware /\ "lang" \in DOMAIN Section
          THEN {LangPath(gen, Section["lang"])} ELSE {})
    \cup (IF TemplateFile # <<>> THEN {TemplateFile} ELSE {})
TemplateWords == Words(BaseText) \cup Words(LangText) \cup Words(CustomText)

NoOutputStep == \A i \in 1..Len(io) : io[i].op \notin {"mkdir", "write"}

\* C1: skip gate.  When the section is absent or empty, or has enabled = false,
\* generate() returns False (it neither raises nor exits), the template resolver is not
\* called, and no file and no directory is created or modified, whatever the other keys
\* and the template files are.
C1_SkipGate ==
    (Ran /\ cfgfile.kind = "toml"
         /\ (DOMAIN Section = {} \/ ~Get(Section, "enabled", TRUE)))
    => /\ result = "false"
       /\ resolved = NotCalled
       /\ fs = Before
       /\ dirs = {}
       /\ NoOutputStep

\* a disabled section whose other keys would make an enabled run fail, with an older
\* output document on disk
C1_Witness ==
    /\ Ran
    /\ gen = "test"
    /\ Get(Section, "enabled", TRUE) = FALSE
    /\ Get(Section, "lang", "") = "cobol"
    /\ TemplateType = "custom" /\ TemplateFile = <<>>
    /\ Strategy = "append"
    /\ OutputDocument = OldDocument
    /\ result = "false"

\* C2: strategy exclusivity.  Under additional_files_strategy = 'replace' with a
\* non-empty additional_files, no step of the run touches the base, language or custom
\* template file, and no word of those templates is in the resolved body or in the
\* written document, for every template, lang and include_base_template.
C2_ReplaceExclusive ==
    (Ran /\ Strategy = "replace" /\ Listed # <<>>)
    => /\ \A i \in 1..Len(io) : io[i].path \notin TemplatePaths
       /\ Words(resolved.body) \cap TemplateWords = {}
       /\ result = "true" => Words(OutputDocument) \cap TemplateWords = {}

\* a replace run of the blockchain agent with base, language and custom template on disk
C2_Witness ==
    /\ Ran
    /\ gen = "blockchain-agent"
    /\ Strategy = "replace" /\ Listed = <<AdditionalPool[1]>>
    /\ Get(Section, "lang", "") = "elixir"
    /\ Read(Before, BlockchainBasePath) = BaseText
    /\ Read(Before, BlockchainLangPath("elixir")) = LangText
    /\ Read(Before, CustomPath) = CustomText
    /\ result = "true"
    /\ Contains(OutputDocument, ExtraText)

AllFragments(files, paths) ==
    join(<<NL, NL>>, [i \in 1..Len(paths) |-> Fragment(files, paths[i])])

\* C3 as stated: under 'merge' with a non-empty additional_files the resolved body is
\* the main template content, then the '# Additional Files' heading, and each listed
\* file's content is in it under '## <basename>'.
C3_AsStated ==
    (resolved.status = "ok" /\ Strategy = "merge" /\ Listed # <<>>)
    => /\ IsPrefix(resolved.main \o AdditionalFilesHeader, resolved.body)
       /\ \A i \in 1..Len(Listed) : Contains(resolved.body, Fragment(Before, Listed[i]))

\* C3 (amended): under 'merge', when at least one listed file holds more than
\* whitespace, the resolved body is the main template content, then
\* '\n\n# Additional Files\n\n', then the fragments '## <basename>\n\n<content>' of the
\* listed files that hold more than whitespace, in list order, joined by '\n\n'.  The
\* prompter with empty main content returns those fragments alone, with no heading.
C3_MergeInclusion ==
    (/\ resolved.status = "ok"
     /\ Strategy = "merge"
     /\ \E i \in 1..Len(Listed) : HasText(Before, Listed[i]))
    => resolved.body =
           (IF gen = "prompter" /\ resolved.main = <<>>
            THEN <<>>
            ELSE resolved.main \o AdditionalFilesHeader)
           \o Fragments(Before, Listed)

\* a merge of the base template with two listed files that both hold text
C3_Witness ==
    /\ Ran
    /\ gen = "tester"
    /\ resolved.status = "ok"
    /\ Strategy = "merge"
    /\ Len(Listed) = 2
    /\ \A i \in 1..2 : HasText(Before, Listed[i])
    /\ resolved.main = BaseText
    /\ resolved.body =
           <<"B", NL, NL, "# Additional Files", NL, NL,
             "##", " ", "extra.md", NL, NL, "X", NL, NL,
             "##", " ", "more.md", NL, NL, "Y", "2">>

\* C4 as stated: under 'replace' with a non-empty additional_files the resolved body is
\* the fragments '## <basename>\n\n<file content>' of the listed files, in list order,
\* joined by '\n\n'.
C4_AsStated ==
    (resolved.status = "ok" /\ Strategy = "replace" /\ Listed # <<>>)
    => resolved.body = AllFragments(Before, Listed)

\* C4 (amended): under 'replace' with a non-empty additional_files the resolved body is
\* the fragments of the listed files whose content is more than whitespace, in list
\* order, joined by '\n\n'; a listed file that is empty or whitespace-only contributes
\* nothing.  No template has a part in it.
C4_ReplaceBody ==
    (resolved.status = "ok" /\ Strategy = "replace" /\ Listed # <<>>)
    => /\ resolved.body = Fragments(Before, Listed)
       /\ resolved.main = <<>>

\* extra.md holding 'X' and a second file, with base and custom template on disk
C4_Witness ==
    /\ Ran
    /\ gen = "clean"
    /\ resolved.status = "ok"
    /\ Strategy = "replace"
    /\ Len(Listed) = 2
    /\ Read(Before, CleanBasePath) = BaseText
    /\ Read(Before, CustomPath) = CustomText
    /\ resolved.body =
           <<"##", " ", "extra.md", NL, NL, "X", NL, NL,
             "##", " ", "more.md", NL, NL, "Y", "2">>

\* C7: an additional_files_strategy outside {merge, replace} makes
\* validate_and_read_template raise before any file is checked, stat-ed or read,
\* whatever the other keys are; the run ends with exit status 1.
C7_InvalidStrategyFirst ==
    (Resolved /\ Strategy \notin {"merge", "replace"})
    => /\ resolved.status = "raise"
       /\ resolved.exc = "ValueError"
       /\ resolved.io = <<>>
       /\ io = <<Op("read", ConfigPath)>>
       /\ result = "exit1"

\* the strategy 'append' was refused although template and additional file exist
C7_Witness ==
    /\ Ran
    /\ gen = "context"
    /\ Strategy = "append"
    /\ TemplateType = "default"
    /\ Read(Before, ContextTemplatePath) = BaseText
    /\ Listed = <<AdditionalPool[1]>>
    /\ Read(Before, AdditionalPool[1]) = ExtraText
    /\ resolved.status = "raise"
    /\ resolved.error = "Invalid additional_files_strategy"

\* C8 as stated: with template = 'custom' and an empty template_file,
\* validate_and_read_template raises before any file I/O, for every additional_files
\* and additional_files_strategy; where no earlier check refuses the section, the error
\* is 'Custom template specified but template_file is empty'.
C8_AsStated ==
    (Resolved /\ TemplateType = "custom" /\ TemplateFile = <<>>)
    => /\ resolved.status = "raise"
       /\ resolved.io = <<>>
       /\ (/\ Strategy \in {"merge", "replace"}
           /\ ~(gen = "blockchain-agent" /\ Get(Section, "lang", "") = "kotlin"))
          => resolved.error = "Custom template specified but template_file is empty"

InputPaths == TemplatePaths \cup { Listed[i] : i \in 1..Len(Listed) }

\* C9: idempotence.  When generate() has run twice in a row and every template and
\* additional file was the same at the start of both runs (the config file never
\* changes), the output file after the second run is what it was after the first.
C9_Idempotent ==
    (/\ Len(history) >= 2
     /\ \A p \in InputPaths :
            Read(starts[Len(starts)], p) = Read(starts[Len(starts) - 1], p))
    => history[Len(history)] = history[Len(history) - 1]

\* two runs that both wrote the document, the first over an older document
C9_Witness ==
    /\ Ran
    /\ gen = "commit"
    /\ runs = 2
    /\ result = "true"
    /\ Read(starts[1], CommitOutputPath) = OldDocument
    /\ Listed = <<AdditionalPool[1]>>
    /\ Strategy = "merge"
    /\ history[1] = history[2]
    /\ history[2] =
           <<"---", NL, "description", ":", " ", "Desc", NL,
             "agent", ":", " ", "build", NL,
             "model", ":", " ", "anthropic/claude-sonnet-4-20250514", NL,
             "---", NL, NL,
             "B", NL, NL, "# Additional Files", NL, NL,
             "##", " ", "extra.md", NL, NL, "X">>

\* an error was raised while loading, validating or resolving
ErrorRaised ==
    \/ cfgfile.kind # "toml"
    \/ gen = "test" /\ TestConfigGenerator_validate_test_config(Section).status = "raise"
    \/ resolved.status = "raise"

\* C10: error propagation.  After an error raised while loading the config, validating
\* it or resolving templates, generate() has ended the process with exit status 1 (it
\* returned neither True nor False), the failed step was the last one (the config file
\* was read once, the resolver's steps followed, nothing after them), and the output
\* file and every other file is as it was.
C10_ErrorPropagation ==
    (Ran /\ ErrorRaised)
    => /\ result = "exit1"
       /\ fs = Before
       /\ NoOutputStep
       /\ io = <<Op("read", ConfigPath)>> \o resolved.io

\* an additional file was missing after the main template had been read; the older
\* output document is still there
C10_Witness ==
    /\ Ran
    /\ resolved.status = "raise"
    /\ resolved.error = "Additional file not found"
    /\ \E i \in 1..Len(resolved.io) : resolved.io[i].op = "read"
    /\ OutputDocument = OldDocument
    /\ result = "exit1"

\* ------------------------------------------------------------------ claims: the writers

Wrote == runs = 1 /\ Exists(fs, OutputPath(gen))

\* the lines of the frontmatter block the writer opened on line 1 of the document
FrontmatterBlock(document) ==
    LET lines == split(document)
        closing == Min({ i \in 2..Len(lines) : lines[i] = <<"---">> })
    IN  SubSeq(lines, 2, closing - 1)
TopLevelLines(block) == SelectSeq(block, LAMBDA line : line # <<>> /\ line[1] # " ")
EmittedKeys(block) ==
    LET top == TopLevelLines(block) IN { top[i][1] : i \in 1..Len(top) }

\* key k of the section has a frontmatter line of its own that carries its value
\* (for permissions: the line that opens the nested table)
Echoed(block, k) ==
    \E i \in 1..Len(block) :
        /\ Len(block[i]) >= 2
        /\ SubSeq(block[i], 1, 2) = <<k, ":">>
        /\ k # "permissions" => Section[k].text \in Words(block[i])

ControlKeySet(g) == IF g \in AgentGenerators THEN ConfigKeys(g) ELSE CommandControlKeys(g)
PassThroughKeys == DOMAIN Section \ ControlKeySet(gen)

\* C11 as stated: in every generator, agent and command generators alike, every key of
\* the section that is no control key is echoed with its value into the frontmatter.
C11_AsStated ==
    Wrote => LET block == FrontmatterBlock(OutputDocument)
             IN  \A k \in PassThroughKeys : Echoed(block, k)

\* C11: pass-through echo.  An agent generator echoes every key of its section that is
\* not among its config keys into the frontmatter of the written document, with its
\* value (permissions as a nested table); a command generator echoes, of the keys that
\* are no control keys, exactly description, agent and model.
C11_PassThroughEcho ==
    Wrote =>
        LET block == FrontmatterBlock(OutputDocument)
        IN  /\ gen \in AgentGenerators => \A k \in PassThroughKeys : Echoed(block, k)
            /\ gen \in CommandGenerators =>
                   \A k \in PassThroughKeys :
                       Echoed(block, k) <=> k \in {"description", "agent", "model"}

C11_Witness ==
    /\ Wrote
    /\ gen = "tester"
    /\ {"description", "temperature", "disable", "permissions"} \subseteq PassThroughKeys
    /\ "enabled" \in DOMAIN Section
    /\ \A k \in PassThroughKeys : Echoed(FrontmatterBlock(OutputDocument), k)

Permissions == Section["permissions"]
FormattedKeys == { formatted.value[i].key : i \in 1..Len(formatted.value) }
FormattedTable(key) ==
    LET i == CHOOSE j \in 1..Len(formatted.value) : formatted.value[j].key = key
    IN  formatted.value[i].table
\* the formatted table holds sub-table `source` of the config under `key`, if and only
\* if the config has that sub-table and it is not empty
Reshaped(key, source) ==
    /\ key \in FormattedKeys <=> (source \in DOMAIN Permissions /\ Permissions[source] # <<>>)
    /\ key \in FormattedKeys => FormattedTable(key) = Permissions[source]

\* C13: permissions reshaping.  _format_permissions returns (it never raises) a table
\* whose keys are among tools, bash and edit, each key at most once; tools holds the
\* tools sub-table, bash the bash_rules sub-table and edit the edit_rules sub-table, each
\* present if and only if its source sub-table is present and not empty; an empty
\* permissions table gives an empty table.
C13_FormatPermissions ==
    formatted.called =>
        /\ FormattedKeys \subseteq {"tools", "bash", "edit"}
        /\ Cardinality(FormattedKeys) = Len(formatted.value)
        /\ Reshaped("tools", "tools")
        /\ Reshaped("bash", "bash_rules")
        /\ Reshaped("edit", "edit_rules")
        /\ DOMAIN Permissions = {} => formatted.value = <<>>

C13_Witness ==
    /\ formatted.called
    /\ DOMAIN Permissions = {"tools", "bash_rules", "web_rules"}
    /\ Permissions["tools"] = <<>>
    /\ formatted.value = <<[key |-> "bash", table |-> BashRulesTable]>>

\* the number of the line that closes the frontmatter block opened on line 1
ClosingLine(lines) == Min({ i \in 2..Len(lines) : lines[i] = <<"---">> })

\* C14 as stated: output document layout.  For every generator the written file is the
\* frontmatter block (opening '---' line, key lines, closing '---' line), then one blank
\* line, then the body with its own leading frontmatter stripped; the body never starts
\* on the line directly after the closing '---'.
C14_AsStated ==
    Wrote =>
        LET lines == split(OutputDocument)
            closing == ClosingLine(lines)
        IN  /\ lines[1] = <<"---">>
            /\ Len(lines) > closing
            /\ lines[closing + 1] = <<>>
            /\ join(<<NL>>, SubSeq(lines, closing + 2, Len(lines)))
                   = _strip_frontmatter(content)

\* a value as the claim has it rendered: a string in double quotes, a boolean as
\* true/false, a number as it is
Rendering(value) ==
    IF value.type = "str" THEN <<Quote, value.text, Quote>>
    ELSE IF value.type = "bool" THEN <<Lower(value.text)>>
    ELSE <<value.text>>
IsSuffix(p, s) == Len(p) <= Len(s) /\ SubSeq(s, Len(s) - Len(p) + 1, Len(s)) = p

\* the frontmatter has the line of top-level key k with its value rendered
RenderedTopLevel(block, k) ==
    \E i \in 1..Len(block) : block[i] = <<k, ":", " ">> \o Rendering(Section[k])
\* the frontmatter has the nested line of an entry of a permissions sub-table
RenderedNested(block, entry) ==
    \E i \in 1..Len(block) :
        /\ IsPrefix(<<" ", " ", " ", " ">>, block[i])
        /\ entry.key \in Words(block[i])
        /\ IsSuffix(<<":", " ">> \o Rendering(entry.value), block[i])

\* C15 as stated: frontmatter value rendering.  The agent generators' writer emits every
\* string value double-quoted, every boolean value lower-cased (true/false) and every
\* number literally, for top-level pass-through keys and for entries nested under
\* permissions.
C15_AsStated ==
    (Wrote /\ gen \in AgentGenerators) =>
        LET block == FrontmatterBlock(OutputDocument)
        IN  /\ \A k \in PassThroughKeys \ {"permissions"} : RenderedTopLevel(block, k)
            /\ formatted.called =>
                   \A i \in 1..Len(formatted.value) :
                       \A j \in 1..Len(formatted.value[i].table) :
                           RenderedNested(block, formatted.value[i].table[j])

\* the name of a command as its default description spells it
CommandName(g) ==
    CASE g = "clean" -> "Clean"
      [] g = "commit" -> "Commit"
      [] g = "context" -> "Context"
      [] g = "prompter" -> "Prompter"
      [] g \in {"test", "ogc-test"} -> "Test"
\* the text of key k of the section, or the default when the section has no such key
TextOr(k, default) == IF k \in DOMAIN Section THEN Section[k].text ELSE default

Failed(exc, msg) ==
    resolved.status = "raise" /\ resolved.exc = exc /\ resolved.error = msg
Range(seq) == { seq[i] : i \in 1..Len(seq) }
ResolverPaths == { resolved.io[i].path : i \in 1..Len(resolved.io) }
\* the fixed templates of the generator: its base template and its language template
FixedTemplatePaths ==
    (IF gen \in Generators \ {"task-manager"} THEN {BasePath(gen)} ELSE {})
    \cup (IF gen \in LanguageAware /\ "lang" \in DOMAIN Section
          THEN {LangPath(gen, Section["lang"])} ELSE {})
\* the resolver was called for a custom template that the strategy does not replace
CustomResolved ==
    /\ Ran
    /\ Resolved
    /\ TemplateType = "custom"
    /\ Strategy \in {"merge", "replace"}
    /\ reads_main_template(Strategy, Listed)
\* the outcome of the custom branch, decided in the order the claim gives
CustomOutcome ==
    IF TemplateFile = <<>>
    THEN Failed("ValueError", "Custom template specified but template_file is empty")
         /\ resolved.io = <<>>
    ELSE IF ~Exists(Before, TemplateFile)
    THEN Failed("FileNotFoundError", "Custom template file not found")
    ELSE IF Read(Before, TemplateFile) = <<>>
    THEN Failed("ValueError", "Custom template file is empty")
    ELSE /\ resolved.status = "ok" => resolved.main = Read(Before, TemplateFile)
         /\ resolved.status = "raise" =>
                Failed("FileNotFoundError", "Additional file not found")
         /\ ResolverPaths \cap (FixedTemplatePaths \ {TemplateFile}) = {}
UnsupportedBlockchainLanguage ==
    /\ gen = "blockchain-agent"
    /\ Get(Section, "lang", "") \notin BlockchainSupportedLanguages \cup {""}

\* C17 as stated: custom template resolution.  With template == 'custom' and the main
\* template not replaced, the outcome is decided in this order: an empty template_file
\* fails; a missing file fails with FileNotFound; a zero-length file fails with an
\* empty-template error; otherwise the file content is the main content verbatim, and
\* include_base_template and lang contribute nothing.
C17_AsStated == CustomResolved => CustomOutcome

\* C17: custom template resolution.  The same, except that in the blockchain agent a
\* lang outside its supported languages fails first with 'Unsupported language',
\* whatever the custom template file is.
C17_CustomResolution ==
    CustomResolved =>
        IF UnsupportedBlockchainLanguage
        THEN Failed("ValueError", "Unsupported language") /\ resolved.io = <<>>
        ELSE CustomOutcome

C17_Witness ==
    /\ CustomResolved
    /\ gen = "clean"
    /\ Get(Section, "lang", "") = "elixir"
    /\ "include_base_template" \in DOMAIN Section
    /\ Exists(Before, BasePath(gen))
    /\ Listed # <<>>
    /\ resolved.status = "ok"
    /\ resolved.main = CustomText

ListedPaths == { Listed[i] : i \in 1..Len(Listed) }
\* the resolver was called with a valid strategy and a listed file that does not exist
MissingAdditional ==
    /\ Ran
    /\ Resolved
    /\ Strategy \in {"merge", "replace"}
    /\ \E i \in 1..Len(Listed) : ~Exists(Before, Listed[i])
NothingWritten == fs = Before /\ NoOutputStep /\ result # "true"

\* C18 as stated: missing additional file.  In every generator and under both
\* strategies, if any path in additional_files does not exist (at any position of the
\* list), template resolution fails with FileNotFound and no output file is written.
C18_AsStated ==
    MissingAdditional =>
        resolved.status = "raise" /\ resolved.exc = "FileNotFoundError" /\ NothingWritten

\* C18: missing additional file.  In every generator and under both strategies, if any
\* path in additional_files does not exist, template resolution fails and no output file
\* is written: either with FileNotFound 'Additional file not found', every listed file
\* before the first missing one having been read, or, when an earlier check or the main
\* template already failed, with that failure's error and without touching a listed file.
C18_MissingAdditional ==
    MissingAdditional =>
        /\ resolved.status = "raise"
        /\ NothingWritten
        /\ LET first == Min({ i \in 1..Len(Listed) : ~Exists(Before, Listed[i]) })
           IN  IF resolved.error = "Additional file not found"
               THEN /\ resolved.exc = "FileNotFoundError"
                    /\ \A i \in 1..(first - 1) : Op("read", Listed[i]) \in Range(resolved.io)
                    /\ Op("read", Listed[first]) \notin Range(resolved.io)
                    /\ resolved.io[Len(resolved.io)] = Op("exists", Listed[first])
               ELSE ResolverPaths \cap ListedPaths = {}

C18_Witness ==
    /\ MissingAdditional
    /\ gen = "tester"
    /\ Strategy = "merge"
    /\ Len(Listed) = 2
    /\ Exists(Before, Listed[1])
    /\ Op("read", TesterTemplatePath) \in Range(resolved.io)
    /\ Op("read", Listed[1]) \in Range(resolved.io)
    /\ Failed("FileNotFoundError", "Additional file not found")
    /\ NothingWritten

SupportedLanguages(g) ==
    IF g = "blockchain-agent" THEN BlockchainSupportedLanguages ELSE CommandSupportedLanguages
\* generate() has run on a section whose lang is set to a language the generator does
\* not support
UnsupportedLanguageRun ==
    /\ Ran
    /\ gen \in LanguageAware
    /\ "lang" \in DOMAIN Section
    /\ Section["lang"] \notin SupportedLanguages(gen) \cup {""}

\* C19: unsupported language never generates.  In every language-aware generator (clean,
\* test of both trees, blockchain agent), when lang is set and is not one of the
\* generator's supported languages, no run of generate() writes or modifies the output
\* file or takes a mkdir or write step, whatever template, strategy and additional_files
\* are; generate() does not return True.
C19_UnsupportedLanguage ==
    UnsupportedLanguageRun =>
        /\ NothingWritten
        /\ fs = starts[1]
        /\ dirs = {}
        /\ \A i \in 1..Len(history) : history[i] = Read(starts[1], OutputPath(gen))

C19_Witness ==
    /\ UnsupportedLanguageRun
    /\ gen = "clean"
    /\ Get(Section, "enabled", TRUE)
    /\ Exists(Before, LangPath(gen, Section["lang"]))
    /\ Exists(Before, BasePath(gen))
    /\ Strategy = "replace"
    /\ Listed # <<>>
    /\ \A i \in 1..Len(Listed) : HasText(Before, Listed[i])
    /\ OutputDocument = OldDocument
    /\ runs = MaxRuns

\* ------------------------------------------------------------------ claims: two generators at once

BothDone == procs # <<>> /\ \A p \in {1, 2} : procs[p].pc = "done"
Other(p) == 3 - p
\* the files the config of process p names: its template file and its additional files
NamedPaths(p) ==
    LET sec == procs[p].file.section
    IN  (IF Get(sec, "template_file", <<>>) # <<>> THEN {sec["template_file"]} ELSE {})
        \cup Range(Get(sec, "additional_files", <<>>))
\* what the generator of process p writes when it runs alone over the same project root
Alone(p) ==
    Read(Generate(procs[p].gen, procs[p].file, starts[1], {}).fs, OutputPath(procs[p].gen))
OutputPathsDiffer == OutputPath(procs[1].gen) # OutputPath(procs[2].gen)
NeitherReadsOther ==
    \A p \in {1, 2} :
        \A i \in 1..Len(procs[p].io) : procs[p].io[i].path # OutputPath(procs[Other(p)].gen)
FinalAsAlone == \A p \in {1, 2} : Read(fs, OutputPath(procs[p].gen)) = Alone(p)

\* C20 as stated: disjoint outputs under concurrency.  For any two distinct generators
\* run in any interleaving over the same project root, their output file paths differ
\* and neither reads the other's output, so each output file's final content is what
\* its generator produces when run alone.
C20_AsStated == BothDone => (OutputPathsDiffer /\ NeitherReadsOther /\ FinalAsAlone)

\* C20: disjoint outputs under concurrency.  For any two distinct generators run in any
\* interleaving over the same project root, their output file paths differ; and when the
\* config of neither names the other's output file as its template_file or among its
\* additional_files, neither reads the other's output and each output file's final
\* content is what its generator produces when run alone.
C20_DisjointOutputs ==
    BothDone =>
        /\ OutputPathsDiffer
        /\ (\A p \in {1, 2} : OutputPath(procs[Other(p)].gen) \notin NamedPaths(p))
               => (NeitherReadsOther /\ FinalAsAlone)

C20_Witness ==
    /\ BothDone
    /\ procs[1].gen = "task-manager"
    /\ procs[2].gen = "ogc-test"
    /\ \A p \in {1, 2} :
           /\ OutputPath(procs[Other(p)].gen) \notin NamedPaths(p)
           /\ procs[p].result = "true"
           /\ Read(starts[1], OutputPath(procs[p].gen)) = OldDocument
           /\ Read(fs, OutputPath(procs[p].gen)) = Alone(p)
           /\ Read(fs, OutputPath(procs[p].gen)) # OldDocument

\* ------------------------------------------------------------------ claims: default templates

\* include_base_template as the generator reads it: the blockchain agent defaults to
\* true, the command generators to false
IncludeBase == Get(Section, "include_base_template", gen = "blockchain-agent")
Language == Get(Section, "lang", "")
\* the resolver went through the branch template == 'default'
DefaultResolved ==
    /\ Ran
    /\ Resolved
    /\ TemplateType = "default"
    /\ Strategy \in {"merge", "replace"}
    /\ reads_main_template(Strategy, Listed)
\* the base fragment and the language fragment are both included
BothFragments ==
    /\ DefaultResolved
    /\ gen \in LanguageAware
    /\ resolved.status = "ok"
    /\ IncludeBase
    /\ Language # ""
    /\ Exists(Before, BasePath(gen))
    /\ Exists(Before, LangPath(gen, Language))
    /\ gen = "blockchain-agent" => Read(Before, LangPath(gen, Language)) # <<>>
LanguageHeading ==
    <<"#", " ", Title(Language), " ", "Blockchain Development Specifics">>

\* C21 as stated: default-template assembly order and separator.  In every generator
\* that assembles base and language fragments (clean, test of both trees, blockchain
\* agent), when both fragments are included the main content is the base fragment
\* followed by the language fragment, joined with exactly two newlines.
C21_AsStated ==
    BothFragments =>
        resolved.main = Read(Before, BasePath(gen)) \o <<NL, NL>>
                        \o Read(Before, LangPath(gen, Language))

\* C21: default-template assembly order and separator.  When both fragments are
\* included, the main content of clean and test (both trees) is the base fragment, two
\* newlines, the language fragment; that of the blockchain agent is the base fragment,
\* three newlines, the heading '# <Lang> Blockchain Development Specifics', two
\* newlines, the language fragment.
C21_AssemblyOrder ==
    BothFragments =>
        resolved.main =
            Read(Before, BasePath(gen))
            \o (IF gen = "blockchain-agent"
                THEN <<NL, NL, NL>> \o LanguageHeading \o <<NL, NL>> ELSE <<NL, NL>>)
            \o Read(Before, LangPath(gen, Language))

C21_Witness ==
    /\ BothFragments
    /\ gen = "ogc-test"
    /\ Strategy = "merge"
    /\ Listed # <<>>
    /\ resolved.main = BaseText \o <<NL, NL>> \o LangText
    /\ result = "true"

\* the resolver went through the branch template == 'default' of a generator with a base
\* template, with include_base_template false
BaseExcluded ==
    /\ Ran
    /\ Resolved
    /\ gen \in WithBaseTemplate
    /\ TemplateType = "default"
    /\ ~IncludeBase
BaseUntouched ==
    /\ BasePath(gen) \notin ResolverPaths
    /\ HasText(Before, BasePath(gen)) => ~Contains(resolved.body, Read(Before, BasePath(gen)))
\* clean and test find no language fragment: lang is not set or its file does not exist
FallsBackToBase ==
    /\ gen \in {"clean", "test", "ogc-test"}
    /\ Strategy \in {"merge", "replace"}
    /\ reads_main_template(Strategy, Listed)
    /\ Language = "" \/ ~Exists(Before, LangPath(gen, Language))

\* C22 as stated: include_base_template gates the base fragment.  In every generator with
\* a base template (clean, test, prompter, blockchain agent), when template == 'default'
\* and include_base_template is false, the base template file is not read and its
\* content never appears in the resolved body, whether or not lang is set and whether or
\* not the language file exists.
C22_AsStated == BaseExcluded => BaseUntouched

\* C22: include_base_template gates the base fragment.  The same, except that clean and
\* test (both trees) fall back to the base template when they find no language fragment
\* (lang not set, or its file missing): then the base template is looked for, and it is
\* the main content if it exists and the resolution fails with FileNotFound if not.
C22_BaseGate ==
    BaseExcluded =>
        IF FallsBackToBase
        THEN /\ Op("exists", BasePath(gen)) \in Range(resolved.io)
             /\ IF Exists(Before, BasePath(gen))
                THEN /\ Op("read", BasePath(gen)) \in Range(resolved.io)
                     /\ resolved.status = "ok" => resolved.main = Read(Before, BasePath(gen))
                ELSE Failed("FileNotFoundError",
                            "No template files found. Base template missing")
        ELSE BaseUntouched

C22_Witness ==
    /\ BaseExcluded
    /\ ~FallsBackToBase
    /\ gen = "test"
    /\ Strategy = "merge"
    /\ HasText(Before, BasePath(gen))
    /\ resolved.status = "ok"
    /\ resolved.main = LangText
    /\ BaseUntouched

\* the default branch ran with a supported language whose template file is missing or
\* empty
LanguageFileAbsent ==
    /\ DefaultResolved
    /\ gen \in LanguageAware
    /\ Language \in SupportedLanguages(gen)
    /\ ~Exists(Before, LangPath(gen, Language)) \/ Read(Before, LangPath(gen, Language)) = <<>>
BaseIncluded == IncludeBase /\ Exists(Before, BasePath(gen))
\* the resolver did not stop at the main template, and this is its main content
MainContent(text) ==
    /\ resolved.status = "ok" => resolved.main = text
    /\ resolved.status = "raise" => Failed("FileNotFoundError", "Additional file not found")

\* C23 as stated: language file absence is not fatal.  In every language-aware generator,
\* when template == 'default', lang is a supported language and its language template
\* file is missing or empty, resolution does not fail on that account: the language
\* fragment is skipped and the remaining parts (the base fragment) form the main content.
C23_AsStated ==
    LanguageFileAbsent =>
        /\ ~Failed("FileNotFoundError", "Language template not found")
        /\ BaseIncluded => MainContent(Read(Before, BasePath(gen)))

\* C23: language file absence.  In clean and test (both trees) a missing language file
\* is skipped, and an empty one contributes an empty part: with the base fragment
\* included the main content is the base fragment, followed by two newlines when the
\* language file is empty.  In the blockchain agent an empty language file is skipped,
\* and a missing one makes the resolution fail with FileNotFound 'Language template not
\* found' (unless the included base template is missing, which fails first).
C23_LanguageFileAbsent ==
    LanguageFileAbsent =>
        LET base == Read(Before, BasePath(gen))
            missing == ~Exists(Before, LangPath(gen, Language))
        IN  IF gen = "blockchain-agent"
            THEN IF IncludeBase /\ ~Exists(Before, BasePath(gen))
                 THEN Failed("FileNotFoundError", "Base template not found")
                 ELSE IF missing
                 THEN Failed("FileNotFoundError", "Language template not found")
                 ELSE BaseIncluded => MainContent(base)
            ELSE /\ resolved.status = "raise" => resolved.exc = "FileNotFoundError"
                 /\ ~Failed("FileNotFoundError", "Language template not found")
                 /\ (BaseIncluded /\ missing) => MainContent(base)
                 /\ (BaseIncluded /\ ~missing) => MainContent(base \o <<NL, NL>>)
                 /\ (~BaseIncluded /\ ~missing) => MainContent(<<>>)

C23_Witness ==
    /\ LanguageFileAbsent
    /\ gen = "clean"
    /\ ~Exists(Before, LangPath(gen, Language))
    /\ BaseIncluded
    /\ resolved.status = "ok"
    /\ resolved.main = BaseText
    /\ result = "true"

\* ------------------------------------------------------------ claims: strategies

\* validate_and_read_template of generator g
ValidateAndReadTemplate(g, files, config) ==
    CASE g = "task-manager" -> TaskManagerAgentGenerator_validate_and_read_template(files, config)
      [] g = "tester" -> TesterAgentGenerator_validate_and_read_template(files, config)
      [] g = "blockchain-agent" -> BlockchainAgentGenerator_validate_and_read_template(files, config)
      [] g = "clean" -> CleanConfigGenerator_validate_and_read_template(files, config)
      [] g = "commit" -> CommitConfigGenerator_validate_and_read_template(files, config)
      [] g = "context" -> ContextConfigGenerator_validate_and_read_template(files, config)
      [] g = "prompter" -> PrompterConfigGenerator_validate_and_read_template(files, config)
      [] g = "test" -> TestConfigGenerator_validate_and_read_template(files, config)
      [] g = "ogc-test" -> OgcTestConfigGenerator_validate_and_read_template(files, config)

\* the section of the last run with another strategy, all other keys equal
WithStrategy(strategy) == ("additional_files_strategy" :> strategy) @@ Section
OtherStrategy == IF Strategy = "replace" THEN "merge" ELSE "replace"
SameOutcome(a, b) ==
    /\ a.status = b.status
    /\ a.exc = b.exc
    /\ a.error = b.error
    /\ a.body = b.body
NoAdditionalFiles == Ran /\ Resolved /\ Listed = <<>> /\ Strategy \in {"merge", "replace"}

\* C24: degenerate replace equals merge.  In every generator, for every config with empty
\* additional_files, validate_and_read_template under additional_files_strategy ==
\* 'replace' has the same outcome (the same body, or the same failure) as under 'merge'
\* with all other keys and files equal.
C24_DegenerateReplace ==
    NoAdditionalFiles =>
        /\ SameOutcome(resolved, ValidateAndReadTemplate(gen, Before, Section))
        /\ SameOutcome(resolved, ValidateAndReadTemplate(gen, Before, WithStrategy(OtherStrategy)))

C24_Witness ==
    /\ NoAdditionalFiles
    /\ gen = "prompter"
    /\ Strategy = "replace"
    /\ resolved.status = "ok"
    /\ resolved.body = BaseText
    /\ ValidateAndReadTemplate(gen, Before, WithStrategy("merge")).body = BaseText
    /\ result = "true"

\* the body the writer puts after the synthesized frontmatter
WrittenBody == _strip_frontmatter(resolved.body)

\* C25 as stated: no empty body on success.  In every generator, whenever generate()
\* returns True the body written after the synthesized frontmatter contains some text;
\* when no base, language, custom or additional file resolves to any text, generation
\* fails with a no-template-content error instead of writing a document.
C25_AsStated ==
    /\ (Ran /\ result = "true") => strip(WrittenBody) # <<>>
    /\ (Ran /\ Resolved /\ resolved.status = "ok") => strip(WrittenBody) # <<>>

\* ------------------------------------------------------------ claims: fragment frontmatter

\* the opening of the frontmatter block a fragment carries
BlockOf(text) == SubSeq(text, 1, 6)
CarriesBlock(text) == Len(text) > 6 /\ SubSeq(text, 1, 5) = <<"---", NL, "origin", ":", " ">>
\* the files of the last run that carry a block and went into the body
ContributingBlocks ==
    { p \in DOMAIN Before :
        CarriesBlock(Read(Before, p)) /\ Contains(resolved.body, Read(Before, p)) }
Survives(p) == Contains(OutputDocument, BlockOf(Read(Before, p)))
Leads(p) == IsPrefix(Read(Before, p), resolved.body)
DocumentWritten == Ran /\ result = "true"

\* C26 as stated: fragment frontmatter never survives.  For every generator and every
\* enabled config, no '---'-delimited frontmatter block carried by a contributing
\* template fragment (base, language, custom, or an additional file under merge or
\* replace) appears in the written document.
C26_AsStated == DocumentWritten => \A p \in ContributingBlocks : ~Survives(p)

\* C26: only leading frontmatter is removed.  The frontmatter block of a contributing
\* fragment is absent from the written document exactly when that fragment begins the
\* resolved body; the block of an additional file (which follows its '## name' heading),
\* and the block of a language fragment that follows a base fragment or heading, stay in
\* the written document.
C26_LeadingBlockOnly ==
    DocumentWritten =>
        /\ \A p \in ContributingBlocks : Survives(p) <=> ~Leads(p)
        /\ \A p \in ContributingBlocks \cap Range(Listed) : Survives(p)
        /\ \A p \in ContributingBlocks :
               (gen \in LanguageAware /\ Language # "" /\ p = LangPath(gen, Language)
                /\ (gen = "blockchain-agent" \/ Contains(resolved.body, BaseText)))
               => Survives(p)

C26_Witness ==
    /\ DocumentWritten
    /\ gen = "context"
    /\ Strategy = "merge"
    /\ ContributingBlocks = {BasePath(gen), AdditionalPool[1]}
    /\ Leads(BasePath(gen))
    /\ ~Survives(BasePath(gen))
    /\ Survives(AdditionalPool[1])

\* ------------------------------------------------------------ claims: failing runs

FailedRun == Ran /\ result # "true"
WriteBegun == Op("write", OutputPath(gen)) \in Range(io)
PreviousDocument == Read(Before, OutputPath(gen))
\* the document the run was about to write
IntendedDocument == Read(Generate(gen, cfgfile, Before, {}).fs, OutputPath(gen))

\* C27 as stated: no partial output on failure.  For every generator, a run that fails
\* at any step (an I/O failure during the write step included) may leave an empty
\* directory but never a partial, truncated or otherwise modified output file: a
\* pre-existing output file keeps its previous content.
C27_AsStated == FailedRun => OutputDocument = PreviousDocument

\* C27: output after a failed run.  A run that fails before the output file is opened for
\* writing (loading, validation, template resolution, mkdir, open) leaves the output
\* file as it was.  A run whose write fails after the file was opened leaves a truncated
\* file: a proper prefix of the document, possibly empty, in place of any previous
\* content.
C27_FailedRun ==
    FailedRun =>
        IF WriteBegun
        THEN /\ Exists(fs, OutputPath(gen))
             /\ IsPrefix(OutputDocument, IntendedDocument)
             /\ OutputDocument # IntendedDocument
             /\ PreviousDocument = OldDocument => OutputDocument # PreviousDocument
             /\ Parents(OutputPath(gen)) \subseteq dirs
        ELSE OutputDocument = PreviousDocument

C27_Witness ==
    /\ FailedRun
    /\ result = "exit1"
    /\ WriteBegun
    /\ PreviousDocument = OldDocument
    /\ OutputDocument = <<>>

\* ------------------------------------------------------------ claims: stripping twice

\* the text begins with a block the stripper removes
BeginsWithBlock(text) ==
    LET lines == split(text)
    IN  IsDelimiter(lines[1]) /\ \E i \in 2..Len(lines) : IsDelimiter(lines[i])
\* the text begins with two such blocks, with at most blank lines between them
BeginsWithTwoBlocks(text) ==
    LET lines == split(text)
        closing == { i \in 2..Len(lines) : IsDelimiter(lines[i]) }
    IN  /\ IsDelimiter(lines[1])
        /\ closing # {}
        /\ BeginsWithBlock(AfterBlankRun(lines, Min(closing)))

\* C28 as stated: the Frontmatter Stripper is idempotent.  For every input text x,
\* _strip_frontmatter(_strip_frontmatter(x)) == _strip_frontmatter(x): the stripped
\* result never itself begins with a block that the stripper would remove.
C28_AsStated == StripRan => _strip_frontmatter(stripped) = stripped

\* C28: stripping twice.  _strip_frontmatter(_strip_frontmatter(x)) ==
\* _strip_frontmatter(x) exactly for the texts x that do not begin with two blocks in a
\* row (a second block following the first with at most blank lines between): each
\* application removes one leading block only.
C28_StripTwice ==
    StripRan => (_strip_frontmatter(stripped) = stripped <=> ~BeginsWithTwoBlocks(content))

\* a text with one block was stripped, and stripping the result changes nothing
C28_Witness ==
    /\ StripRan
    /\ content = <<"---", NL, "a", NL, "---", NL, "a">>
    /\ stripped = <<"a">>
    /\ _strip_frontmatter(stripped) = stripped

\* ------------------------------------------------------------ claims: the driver

DriverRan == driver.status # "none"
Discovered == [i \in 1..Len(Scripts) |-> Scripts[i].stem]
ResultNames == [i \in 1..Len(driver.results) |-> driver.results[i].name[2]]

\* C29 as stated: driver completeness.  In one run of init.py every discovered generator
\* script has its generate() invoked exactly once, in sorted order, and gets exactly one
\* result entry classified as success, skipped or failed; a generator whose generate()
\* fails is recorded as failed, the remaining generators still run and the summary is
\* printed.
C29_AsStated ==
    DriverRan =>
        /\ driver.status # "exit1"
        /\ IsPrefix(driver.invoked, Discovered)
        /\ ResultNames = driver.invoked
        /\ driver.status = "summary" => driver.invoked = Discovered

\* ------------------------------------------------------------ claims: the two test generators

\* the place of a file of the control tree in the ogc tree: templates and output move
\* below 'ogc/', the other files stay where they are under the project root
ToOgc(path) == IF path[1] \in {"control", "generated"} THEN <<"ogc">> \o path ELSE path
FromOgc(path) == IF path[1] = "ogc" THEN Tail(path) ELSE path
Mirror(files) == [q \in { ToOgc(p) : p \in DOMAIN files } |-> files[FromOgc(q)]]

\* a run of the test generator of the control tree whose additional files lie outside
\* both trees
ControlTestRan == Ran /\ gen = "test" /\ \A p \in Range(Listed) : ToOgc(p) = p
\* what the test generator of the ogc tree does with the same config and the same files
OgcOutcome == OgcTestConfigGenerator_generate(cfgfile, Mirror(Before), {})
OgcDocument == Read(OgcOutcome.fs, OgcTestOutputPath)
UnsupportedTestLanguage ==
    /\ Section # <<>>
    /\ Get(Section, "enabled", TRUE)
    /\ Language # ""
    /\ Language \notin CommandSupportedLanguages

\* C30 as stated: variant equivalence of the test command generator.  For the same config
\* section and the same template files (modulo the 'ogc/' path prefix and the
\* project-root convention) the test generator of the control tree and the one of the
\* ogc tree have the same outcome: both skip, both fail, or both write the same document.
C30_AsStated ==
    ControlTestRan =>
        /\ result = OgcOutcome.result
        /\ OutputDocument = OgcDocument

\* C30: the two test generators.  They have the same outcome (both skip, both fail, or
\* both write the same document), except for an enabled section whose lang is not a
\* supported language: there the generator of the control tree fails (ValueError, exit
\* status 1) and the one of the ogc tree skips; neither writes.
C30_TestVariants ==
    ControlTestRan =>
        /\ OutputDocument = OgcDocument
        /\ IF UnsupportedTestLanguage
           THEN result = "exit1" /\ OgcOutcome.result = "false" /\ OutputDocument = PreviousDocument
           ELSE /\ result = OgcOutcome.result
                /\ resolved.status = OgcOutcome.resolved.status
                /\ resolved.exc = OgcOutcome.resolved.exc
                /\ resolved.body = OgcOutcome.resolved.body

C30_Witness ==
    /\ ControlTestRan
    /\ ~UnsupportedTestLanguage
    /\ Language = "elixir"
    /\ result = "true"
    /\ OgcOutcome.result = "true"
    /\ OutputDocument = OgcDocument
    /\ Contains(OgcDocument, LangText)

====
